---- MODULE Spec2Model ----
(***************************************************************************)
(* Verification model of the airman scheduling core: the greedy roster     *)
(* generator with its booking ledger (app/scheduling), the weather-minima  *)
(* dispatch engine (app/dispatch) and the reallocation engine              *)
(* (app/reallocation).                                                     *)
(*                                                                         *)
(* Representation choices:                                                 *)
(*  - a Python str that the code parses or compares character by character *)
(*    (times "HH:MM", windows "HH:MM-HH:MM", stages) is a sequence of      *)
(*    one-character strings, so that splitting, strptime and the           *)
(*    lexicographic comparison of str are computed, not assumed;           *)
(*  - ids, activity names, reason codes and citations are opaque strings;  *)
(*  - hours held in floats are kept in minutes (every time of the model is *)
(*    a whole number of minutes, where the float arithmetic is exact);     *)
(*  - visibility (a float, statute miles) is kept in tenths of a mile;     *)
(*  - an Optional value is << >> for None and << v >> for a value v; an    *)
(*    absent entity_id or resource is the string "None";                   *)
(*  - a date of the week is its day number 1..5 (Monday..Friday), and a    *)
(*    slot_id "Ddd-<id>" is the pair << day, id >>;                        *)
(*  - of the dict generate_roster returns, the keys roster and unassigned  *)
(*    are kept (week_start and base_icao are copies of arguments).         *)
(***************************************************************************)
EXTENDS Integers, Sequences, FiniteSets, TLC

(***************************************************************************)
(* Python str primitives                                                   *)
(***************************************************************************)

\* Code-point order of the characters the model uses ('-' < digits < ':' < letters).
Alphabet ==
    << "-", "0", "1", "2", "3", "4", "5", "6", "7", "8", "9", ":",
       "A", "C", "E", "I", "L", "M", "N", "P", "T", "X",
       "a", "c", "e", "i", "m", "n", "t" >>

Ord(c) == CHOOSE i \in 1..Len(Alphabet) : Alphabet[i] = c

Digits == {"0", "1", "2", "3", "4", "5", "6", "7", "8", "9"}

DigitVal(c) == Ord(c) - 2

\* str.upper() on one character
UpperChar(c) ==
    CASE c = "a" -> "A" [] c = "c" -> "C" [] c = "e" -> "E" [] c = "i" -> "I"
      [] c = "m" -> "M" [] c = "n" -> "N" [] c = "t" -> "T" [] c = "b" -> "B"
      [] c = "g" -> "G" [] c = "o" -> "O" [] c = "v" -> "V" [] OTHER -> c

Upper(s) == [i \in 1..Len(s) |-> UpperChar(s[i])]

\* a < b on two str (lexicographic by code point)
RECURSIVE StrLess(_, _)
StrLess(a, b) ==
    IF b = <<>> THEN FALSE
    ELSE IF a = <<>> THEN TRUE
    ELSE IF Head(a) = Head(b) THEN StrLess(Tail(a), Tail(b))
    ELSE Ord(Head(a)) < Ord(Head(b))

StrLE(a, b) == a = b \/ StrLess(a, b)

\* s.startswith(prefix)
StartsWith(s, prefix) ==
    Len(s) >= Len(prefix) /\ SubSeq(s, 1, Len(prefix)) = prefix

\* s.split(sep) for a one-character separator: the pieces between the
\* occurrences of sep, in order
Split(s, sep) ==
    LET pos  == {i \in 1..Len(s) : s[i] = sep}
        n    == Cardinality(pos)
        b(k) == IF k = 0 THEN 0
                ELSE IF k = n + 1 THEN Len(s) + 1
                ELSE CHOOSE p \in pos : Cardinality({q \in pos : q < p}) = k - 1
    IN [k \in 1..(n + 1) |-> SubSeq(s, b(k - 1) + 1, b(k) - 1)]

MAINTENANCE == << "M", "A", "I", "N", "T", "E", "N", "A", "N", "C", "E" >>

(***************************************************************************)
(* app/scheduling/availability.py                                          *)
(***************************************************************************)

\* value of a field matched by %H or %M: one or two digits
FieldVal(f) ==
    IF Len(f) = 1 THEN DigitVal(f[1]) ELSE 10 * DigitVal(f[1]) + DigitVal(f[2])

FieldOK(f, max) ==
    /\ Len(f) \in {1, 2}
    /\ \A i \in 1..Len(f) : f[i] \in Digits
    /\ FieldVal(f) <= max

\* datetime.strptime(t, "%H:%M") succeeds
ParseOK(t) ==
    LET p == Split(t, ":") IN
    Len(p) = 2 /\ FieldOK(p[1], 23) /\ FieldOK(p[2], 59)

\* parse_time(t), as minutes since midnight (defined when ParseOK(t))
parse_time(t) ==
    LET p == Split(t, ":") IN 60 * FieldVal(p[1]) + FieldVal(p[2])

\* mutant of slot_fits_in_window: the end of the slot is not compared
Mut_slot_fits_in_window(slot_start, slot_end, window) ==
    IF window = <<>> \/ Upper(window) = MAINTENANCE THEN FALSE
    ELSE LET w == Split(window, "-") IN
         IF Len(w) /= 2 THEN FALSE
         ELSE IF ~ParseOK(w[1]) THEN FALSE
         ELSE IF ~ParseOK(slot_start) THEN FALSE
         ELSE parse_time(w[1]) <= parse_time(slot_start)

slot_fits_in_window(slot_start, slot_end, window) ==
    IF window = <<>> \/ Upper(window) = MAINTENANCE THEN FALSE
    ELSE LET w == Split(window, "-") IN
         IF Len(w) /= 2 THEN FALSE                  \* unpacking raises, caught
         ELSE IF ~ParseOK(w[1]) THEN FALSE
         ELSE IF ~ParseOK(slot_start) THEN FALSE
         ELSE IF parse_time(w[1]) > parse_time(slot_start) THEN FALSE  \* and short-circuits
         ELSE IF ~ParseOK(slot_end) \/ ~ParseOK(w[2]) THEN FALSE
         ELSE parse_time(slot_end) <= parse_time(w[2])

DayNames == << "Mon", "Tue", "Wed", "Thu", "Fri" >>

\* week_dates: the dates of the week, Monday to Friday, as day numbers
week_dates == << 1, 2, 3, 4, 5 >>

\* get_day_name(d): strftime("%a") of a date of the week
get_day_name(d) == DayNames[d]

(***************************************************************************)
(* Reference catalogs the model draws its inputs from                      *)
(***************************************************************************)

\* largest required_sorties_per_week of a student of the model
MaxRequired == 2
\* largest max_sessions_per_day of a simulator of the model
MaxSessions == 2

T0800 == << "0", "8", ":", "0", "0" >>
T0900 == << "0", "9", ":", "0", "0" >>
T1000 == << "1", "0", ":", "0", "0" >>
T1100 == << "1", "1", ":", "0", "0" >>
T1200 == << "1", "2", ":", "0", "0" >>
T1400 == << "1", "4", ":", "0", "0" >>
\* accepted by the ingestion validator and by strptime, but not zero-padded
T800  == << "8", ":", "0", "0" >>

Window(start, end) == start \o << "-" >> \o end

AllWeek(windows) == [d \in {"Mon", "Tue", "Wed", "Thu", "Fri"} |-> windows]
MonOnly(windows) == [d \in {"Mon"} |-> windows]

FullDay == << Window(T0800, T1400) >>

PPL1 == << "P", "P", "L", "-", "1" >>
PPL2 == << "P", "P", "L", "-", "2" >>
PPL3 == << "P", "P", "L", "-", "3" >>
PPL4 == << "P", "P", "L", "-", "4" >>

TimeSlot(id, start, end) == [id |-> id, start_time |-> start, end_time |-> end]

\* time-slot catalogs: disjoint blocks, overlapping blocks, a zero-length
\* block, a block whose start is not zero-padded, a block that ends before it starts
TimeSlotCatalogs ==
    { << TimeSlot("AM1", T0800, T1000), TimeSlot("AM2", T1000, T1200),
         TimeSlot("PM1", T1200, T1400) >>,
      << TimeSlot("AM1", T0800, T1000), TimeSlot("MID", T0900, T1100) >>,
      << TimeSlot("Z", T1000, T1000), TimeSlot("AM2", T1000, T1200) >>,
      << TimeSlot("U", T800, T1000), TimeSlot("MID", T0900, T1100) >>,
      << TimeSlot("INV", T1200, T1000), TimeSlot("MID", T0900, T1100) >> }

StudentCatalogs ==
    { << [ id |-> "S1", stage |-> PPL1, priority |-> p1, solo_eligible |-> FALSE,
           required_sorties_per_week |-> r1, availability |-> AllWeek(FullDay) ],
         [ id |-> "S2", stage |-> st2, priority |-> 1, solo_eligible |-> TRUE,
           required_sorties_per_week |-> r2, availability |-> MonOnly(FullDay) ] >> :
        p1 \in {1, 2}, r1 \in 0..MaxRequired, r2 \in 0..MaxRequired,
        st2 \in {PPL3, PPL4} }

InstructorCatalogs ==
    { << [ id |-> "I1", ratings |-> {"CIRCUITS"}, sim_instructor |-> FALSE,
           max_duty_hours_per_day |-> d1, availability |-> AllWeek(FullDay) ],
         [ id |-> "I2", ratings |-> i2.ratings, sim_instructor |-> i2.sim,
           max_duty_hours_per_day |-> 8, availability |-> AllWeek(FullDay) ] >> :
        d1 \in {3, 6},
        i2 \in { [ratings |-> {"NAV", "SOLO"}, sim |-> TRUE],
                 [ratings |-> {"CIRCUITS"}, sim |-> FALSE] } }

AircraftCatalogs ==
    { << [ id |-> "A1", status |-> "AVAILABLE", availability_windows |-> AllWeek(FullDay) ] >>,
      << [ id |-> "A1", status |-> "MAINTENANCE", availability_windows |-> AllWeek(FullDay) ] >>,
      << [ id |-> "A1", status |-> "AVAILABLE",
           availability_windows |->
               [d \in {"Mon", "Tue"} |->
                    IF d = "Tue" THEN << MAINTENANCE >> ELSE FullDay] ] >> }

SimulatorCatalogs ==
    { << [ id |-> "SIM1", max_sessions_per_day |-> m,
           availability |-> AllWeek(FullDay) ] >> :
        m \in 0..MaxSessions }

Catalogs ==
    { [ students |-> s, instructors |-> i, aircraft |-> a, simulators |-> m,
        time_slots |-> t ] :
        s \in StudentCatalogs, i \in InstructorCatalogs, a \in AircraftCatalogs,
        m \in SimulatorCatalogs, t \in TimeSlotCatalogs }

(***************************************************************************)
(* The calls of is_available that are enumerated                           *)
(***************************************************************************)

\* window texts: containing, un-padded, narrow, inverted, the sentinel in upper
\* and in lower case, and texts that are no window
AvailWindowTexts ==
    { Window(T0800, T1400), Window(T800, T1400), Window(T1000, T1200),
      Window(T1400, T0800), MAINTENANCE,
      << "m", "a", "i", "n", "t", "e", "n", "a", "n", "c", "e" >>,
      << >>, T0800, Window(Window(T0800, T1200), T1400),
      Window(<< "2", "5", ":", "0", "0" >>, << "2", "6", ":", "0", "0" >>),
      Window(<< "0", "8", ":", "6", "0" >>, T1400),
      Window(<< "X", "X", ":", "X", "X" >>, T1400),
      << "0", "8", "0", "0", "-", "1", "4", "0", "0" >> }

\* one list per text, lists of two windows, the empty list, and maps without
\* the weekday asked for
AvailMaps ==
    { [ d \in {"Mon"} |-> << w >> ] : w \in AvailWindowTexts }
    \cup { [ d \in {"Mon"} |-> << T0800, Window(T0800, T1400) >> ],
           [ d \in {"Mon"} |-> << Window(T1000, T1200), MAINTENANCE >> ],
           [ d \in {"Mon"} |-> << >> ],
           [ d \in {"Tue"} |-> << Window(T0800, T1400) >> ] }

\* candidate windows: inside, at the edges, un-padded, inverted, and two that
\* strptime rejects
AvailCandidates ==
    { << T0800, T1000 >>, << T1000, T1200 >>, << T0800, T1400 >>, << T800, T1000 >>,
      << T1200, << "1", "4", ":", "0", "1" >> >>, << T1000, T0800 >>,
      << T0800, << "X", "X" >> >>, << << "0", "8", "0", "0" >>, T1000 >> }

AvailCalls ==
    { [ entity_availability |-> av, day_name |-> d,
        slot_start |-> c[1], slot_end |-> c[2] ] :
        av \in AvailMaps, d \in {"Mon", "Tue"}, c \in AvailCandidates }

(***************************************************************************)
(* The parsing functions, tabulated once over the strings of the catalogs  *)
(***************************************************************************)

AvailabilityMaps ==
    UNION { { c.students[i].availability : i \in 1..Len(c.students) }
            \cup { c.instructors[i].availability : i \in 1..Len(c.instructors) }
            \cup { c.aircraft[i].availability_windows : i \in 1..Len(c.aircraft) }
            \cup { c.simulators[i].availability : i \in 1..Len(c.simulators) }
            : c \in Catalogs }

WindowTexts ==
    UNION { UNION { { av[d][i] : i \in 1..Len(av[d]) } : d \in DOMAIN av }
            : av \in AvailabilityMaps \cup AvailMaps }

SlotWindows ==
    UNION { { << c.time_slots[i].start_time, c.time_slots[i].end_time >>
              : i \in 1..Len(c.time_slots) } : c \in Catalogs }

FitsTable ==
    [ x \in (SlotWindows \cup AvailCandidates) \X WindowTexts |->
        slot_fits_in_window(x[1][1], x[1][2], x[2]) ] @@ << >>

MaintenanceTable ==
    [ w \in WindowTexts |-> Upper(w) = MAINTENANCE ] @@ << >>

DurationTable ==
    [ x \in SlotWindows |-> (parse_time(x[2]) - parse_time(x[1])) % 1440 ] @@ << >>

\* entity_availability.get(day_name, []) : a missing weekday is the empty list
Windows(entity_availability, day_name) ==
    IF day_name \in DOMAIN entity_availability
    THEN entity_availability[day_name] ELSE <<>>

is_available(entity_availability, day_name, slot_start, slot_end) ==
    LET windows == Windows(entity_availability, day_name) IN
    \E i \in 1..Len(windows) :
        FitsTable[<< << slot_start, slot_end >>, windows[i] >>]

\* timedelta.seconds of (end - start) is taken modulo one day
duration_minutes(start, end) ==
    DurationTable[<< start, end >>]

\* F(e), with e evaluated once however often F uses its argument (the
\* accumulators of the loops below are bound this way)
With(e, F(_)) == CHOOSE v \in { F(x) : x \in {e} } : TRUE

(***************************************************************************)
(* Python dict primitives                                                  *)
(***************************************************************************)

EmptyDict == << >>

Get(dict, key, default) == IF key \in DOMAIN dict THEN dict[key] ELSE default

Put(dict, key, value) ==
    [k \in (DOMAIN dict) \cup {key} |-> IF k = key THEN value ELSE dict[k]]

(***************************************************************************)
(* app/scheduling/state.py : BookingState                                  *)
(***************************************************************************)

NewBookingState ==
    [ booked           |-> EmptyDict,
      duty_hours       |-> EmptyDict,
      aircraft_sorties |-> EmptyDict,
      sim_sessions     |-> EmptyDict,
      weekly_sorties   |-> EmptyDict ]

\* mutant of BookingState: the five dicts are shared by all instances, so a new
\* ledger starts with what the last one held (<< >> when there was none)
Mut_BookingState(last) ==
    IF last = << >> THEN NewBookingState ELSE last[1]

\* BookingState(): every field has default_factory=dict, so the instance gets
\* five new dicts, whatever ledger an earlier call left behind
BookingState(last) == NewBookingState

is_free(state, entity_id, d, start, end) ==
    LET iv == Get(state.booked, <<entity_id, d>>, <<>>) IN
    \A i \in 1..Len(iv) :
        StrLE(end, iv[i][1]) \/ StrLE(iv[i][2], start)

book(state, entity_id, d, start, end) ==
    [state EXCEPT !.booked =
        Put(@, <<entity_id, d>>,
            Append(Get(@, <<entity_id, d>>, <<>>), <<start, end>>))]

\* mutant of instructor_duty_ok: the one-hour buffer is left out of the check
Mut_instructor_duty_ok(state, instructor_id, d, start, end, max_hours) ==
    Get(state.duty_hours, <<instructor_id, d>>, 0)
        + duration_minutes(start, end) <= 60 * max_hours

\* hours are kept in minutes: used + duration + 1.0 <= max_hours
instructor_duty_ok(state, instructor_id, d, start, end, max_hours) ==
    Get(state.duty_hours, <<instructor_id, d>>, 0)
        + duration_minutes(start, end) + 60 <= 60 * max_hours

log_instructor_hours(state, instructor_id, d, start, end) ==
    [state EXCEPT !.duty_hours =
        Put(@, <<instructor_id, d>>,
            Get(@, <<instructor_id, d>>, 0) + duration_minutes(start, end) + 60)]

\* mutant of aircraft_sorties_ok: <= in place of <
Mut_aircraft_sorties_ok(state, aircraft_id, d) ==
    Get(state.aircraft_sorties, <<aircraft_id, d>>, 0) <= 2

aircraft_sorties_ok(state, aircraft_id, d) ==
    Get(state.aircraft_sorties, <<aircraft_id, d>>, 0) < 2

log_aircraft_sortie(state, aircraft_id, d) ==
    [state EXCEPT !.aircraft_sorties =
        Put(@, <<aircraft_id, d>>, Get(@, <<aircraft_id, d>>, 0) + 1)]

sim_sessions_ok(state, sim_id, d, max_sessions) ==
    Get(state.sim_sessions, <<sim_id, d>>, 0) < max_sessions

log_sim_session(state, sim_id, d) ==
    [state EXCEPT !.sim_sessions =
        Put(@, <<sim_id, d>>, Get(@, <<sim_id, d>>, 0) + 1)]

\* mutant of student_weekly_ok: <= in place of <
Mut_student_weekly_ok(state, student_id, required) ==
    Get(state.weekly_sorties, student_id, 0) <= required

student_weekly_ok(state, student_id, required) ==
    Get(state.weekly_sorties, student_id, 0) < required

log_student_sortie(state, student_id) ==
    [state EXCEPT !.weekly_sorties =
        Put(@, student_id, Get(@, student_id, 0) + 1)]

(***************************************************************************)
(* app/scheduling/sortie_rules.py                                          *)
(***************************************************************************)

pick_sortie_type(student) ==
    IF student.solo_eligible /\ StartsWith(student.stage, PPL4) THEN "SOLO"
    ELSE IF student.stage \in {PPL3, PPL4} THEN "NAV"
    ELSE IF student.stage = PPL2 THEN "CIRCUITS"
    ELSE "CIRCUITS"

instructor_can_teach(instructor, sortie_type) ==
    sortie_type \in instructor.ratings

\* availability values are lists of str (the ingestion schema), so only the
\* list branch of the isinstance tests applies
is_maintenance(ac, day_name) ==
    IF ac.status \in {"MAINTENANCE", "GROUNDED"} THEN TRUE
    ELSE LET windows == Windows(ac.availability_windows, day_name) IN
         \E i \in 1..Len(windows) : MaintenanceTable[windows[i]]

(***************************************************************************)
(* app/scheduling/roster.py                                                *)
(***************************************************************************)

\* the first of the indices hits in list order, 0 for None
FirstIndex(hits) ==
    IF hits = {} THEN 0 ELSE CHOOSE i \in hits : \A j \in hits : i <= j

_find_instructor(instructors, sortie_type, day_name, slot_start, slot_end, day, state) ==
    LET ok(i) ==
            /\ instructor_can_teach(instructors[i], sortie_type)
            /\ is_available(instructors[i].availability, day_name, slot_start, slot_end)
            /\ is_free(state, instructors[i].id, day, slot_start, slot_end)
            /\ instructor_duty_ok(state, instructors[i].id, day, slot_start, slot_end,
                                  instructors[i].max_duty_hours_per_day)
    IN FirstIndex({ i \in 1..Len(instructors) : ok(i) })

_find_sim_instructor(instructors, day_name, slot_start, slot_end, day, state) ==
    LET ok(i) ==
            /\ instructors[i].sim_instructor
            /\ is_available(instructors[i].availability, day_name, slot_start, slot_end)
            /\ is_free(state, instructors[i].id, day, slot_start, slot_end)
            /\ instructor_duty_ok(state, instructors[i].id, day, slot_start, slot_end,
                                  instructors[i].max_duty_hours_per_day)
    IN FirstIndex({ i \in 1..Len(instructors) : ok(i) })

_find_aircraft(aircraft, day_name, slot_start, slot_end, day, state) ==
    LET ok(i) ==
            /\ ~is_maintenance(aircraft[i], day_name)
            /\ is_available(aircraft[i].availability_windows, day_name, slot_start, slot_end)
            /\ is_free(state, aircraft[i].id, day, slot_start, slot_end)
            /\ aircraft_sorties_ok(state, aircraft[i].id, day)
    IN FirstIndex({ i \in 1..Len(aircraft) : ok(i) })

_find_simulator(simulators, day_name, slot_start, slot_end, day, state) ==
    LET ok(i) ==
            /\ is_available(simulators[i].availability, day_name, slot_start, slot_end)
            /\ is_free(state, simulators[i].id, day, slot_start, slot_end)
            /\ sim_sessions_ok(state, simulators[i].id, day,
                               simulators[i].max_sessions_per_day)
    IN FirstIndex({ i \in 1..Len(simulators) : ok(i) })

\* the date is the day number (isoformat is one-to-one on dates)
_make_slot(slot_id, start, end, activity, sortie_type, student_id, instructor_id, resource_id, dispatch_decision, reasons, citations, date) ==
    [ slot_id |-> slot_id, date |-> date, start |-> start, end |-> end,
      activity |-> activity, sortie_type |-> sortie_type,
      student_id |-> student_id, instructor_id |-> instructor_id,
      resource_id |-> resource_id, dispatch_decision |-> dispatch_decision,
      reasons |-> reasons, citations |-> citations ]

\* sorted(students, key=priority): a stable insertion sort
RECURSIVE InsertByPriority(_, _)
InsertByPriority(sorted, s) ==
    IF sorted = <<>> THEN <<s>>
    ELSE IF sorted[Len(sorted)].priority <= s.priority THEN Append(sorted, s)
    ELSE Append(InsertByPriority(SubSeq(sorted, 1, Len(sorted) - 1), s),
                sorted[Len(sorted)])

RECURSIVE SortByPriority(_)
SortByPriority(students) ==
    IF students = <<>> THEN <<>>
    ELSE InsertByPriority(SortByPriority(SubSeq(students, 1, Len(students) - 1)),
                          students[Len(students)])

\* mutant of SlotId: the time-slot id is left out
Mut_SlotId(day, slot) == << day, "" >>

\* f"{day.strftime('D%d')}-{slot['id']}": the two-digit day of the month and the
\* time-slot id, one-to-one on (day, id) within a week
SlotId(day, slot) == << day, slot.id >>

\* roster.py 67-82: both found, so book everything and append the FLIGHT slot
AssignFlight(state, student, day, slot, sortie_type, inst_id, ac_id) ==
    LET slot_start == slot.start_time
        slot_end   == slot.end_time
        s1 == book(state, student.id, day, slot_start, slot_end)
        s2 == book(s1, inst_id, day, slot_start, slot_end)
        s3 == book(s2, ac_id, day, slot_start, slot_end)
        s4 == log_instructor_hours(s3, inst_id, day, slot_start, slot_end)
        s5 == log_aircraft_sortie(s4, ac_id, day)
        s6 == log_student_sortie(s5, student.id)
    IN [ assigned |-> TRUE, state |-> s6,
         slot |-> _make_slot(SlotId(day, slot), slot_start, slot_end, "FLIGHT",
                    sortie_type, student.id, inst_id, ac_id, "GO",
                    << "INSTRUCTOR_CURRENCY_OK", "AIRCRAFT_AVAILABLE" >>,
                    << "rules:doc_dispatch#chunk2", "rules:doc_dispatch#chunk3" >>,
                    day) ]

\* roster.py 96-111: the SIM fallback found both, so book everything and append
\* the SIM slot
AssignSim(state, student, day, slot, inst_id, sim_id) ==
    LET slot_start == slot.start_time
        slot_end   == slot.end_time
        s1 == book(state, student.id, day, slot_start, slot_end)
        s2 == book(s1, inst_id, day, slot_start, slot_end)
        s3 == book(s2, sim_id, day, slot_start, slot_end)
        s4 == log_instructor_hours(s3, inst_id, day, slot_start, slot_end)
        s5 == log_sim_session(s4, sim_id, day)
        s6 == log_student_sortie(s5, student.id)
    IN [ assigned |-> TRUE, state |-> s6,
         slot |-> _make_slot(SlotId(day, slot), slot_start, slot_end, "SIM",
                    "SIM_PROCEDURES", student.id, inst_id, sim_id, "GO",
                    << "NO_AIRCRAFT_AVAILABLE", "SIM_FALLBACK" >>,
                    << "rules:doc_dispatch#chunk4" >>,
                    day) ]

\* roster.py 85-114: the SIM fallback of one student
TrySim(state, student, day, slot, cat) ==
    LET day_name == get_day_name(day) IN
    With(_find_sim_instructor(cat.instructors, day_name, slot.start_time,
                              slot.end_time, day, state),
         LAMBDA sim_inst :
    With(IF sim_inst /= 0
         THEN _find_simulator(cat.simulators, day_name, slot.start_time,
                              slot.end_time, day, state)
         ELSE 0,
         LAMBDA sim :
            IF sim_inst /= 0 /\ sim /= 0
            THEN AssignSim(state, student, day, slot,
                           cat.instructors[sim_inst].id, cat.simulators[sim].id)
            ELSE [assigned |-> FALSE, state |-> state, slot |-> "None"]))

\* mutant of TryStudent: the simulator is tried before the flight
Mut_TryStudent(state, student, day, slot, cat) ==
    LET day_name    == get_day_name(day)
        slot_start  == slot.start_time
        slot_end    == slot.end_time
        sortie_type == pick_sortie_type(student)
        none        == [assigned |-> FALSE, state |-> state, slot |-> "None"]
    IN
    IF ~student_weekly_ok(state, student.id, student.required_sorties_per_week)
    THEN none
    ELSE IF ~is_available(student.availability, day_name, slot_start, slot_end)
    THEN none
    ELSE IF ~is_free(state, student.id, day, slot_start, slot_end)
    THEN none
    ELSE
    With(TrySim(state, student, day, slot, cat), LAMBDA r :
    IF r.assigned THEN r ELSE
    With(_find_instructor(cat.instructors, sortie_type, day_name,
                          slot_start, slot_end, day, state),
         LAMBDA instructor :
    With(IF instructor /= 0
         THEN _find_aircraft(cat.aircraft, day_name, slot_start, slot_end, day, state)
         ELSE 0,
         LAMBDA ac :
            IF instructor /= 0 /\ ac /= 0
            THEN AssignFlight(state, student, day, slot, sortie_type,
                              cat.instructors[instructor].id, cat.aircraft[ac].id)
            ELSE none)))

\* roster.py 48-114: the body of the student loop for one student.
\* Returns [assigned, state, slot]; assigned = FALSE is "continue".
TryStudent(state, student, day, slot, cat) ==
    LET day_name    == get_day_name(day)
        slot_start  == slot.start_time
        slot_end    == slot.end_time
        sortie_type == pick_sortie_type(student)
        none        == [assigned |-> FALSE, state |-> state, slot |-> "None"]
    IN
    IF ~student_weekly_ok(state, student.id, student.required_sorties_per_week)
    THEN none
    ELSE IF ~is_available(student.availability, day_name, slot_start, slot_end)
    THEN none
    ELSE IF ~is_free(state, student.id, day, slot_start, slot_end)
    THEN none
    ELSE
    With(_find_instructor(cat.instructors, sortie_type, day_name,
                          slot_start, slot_end, day, state),
         LAMBDA instructor :
    With(IF instructor /= 0
         THEN _find_aircraft(cat.aircraft, day_name, slot_start, slot_end, day, state)
         ELSE 0,
         LAMBDA ac :
            IF instructor /= 0 /\ ac /= 0
            THEN AssignFlight(state, student, day, slot, sortie_type,
                              cat.instructors[instructor].id, cat.aircraft[ac].id)
            ELSE TrySim(state, student, day, slot, cat)))

\* roster.py 47-114: the student loop for one (day, time slot), from student i on
RECURSIVE ScanStudents(_, _, _, _, _, _)
ScanStudents(state, sorted_students, i, day, slot, cat) ==
    IF i > Len(sorted_students)
    THEN [assigned |-> FALSE, state |-> state, slot |-> "None"]
    ELSE With(TryStudent(state, sorted_students[i], day, slot, cat),
              LAMBDA r :
                 IF r.assigned THEN r            \* break
                 ELSE ScanStudents(state, sorted_students, i + 1, day, slot, cat))

\* roster.py 42-114: the time-slot loop of one day, from time slot k on
RECURSIVE ScanSlots(_, _, _, _, _, _)
ScanSlots(state, sorted_students, day, k, day_slots, cat) ==
    IF k > Len(cat.time_slots)
    THEN [state |-> state, day_slots |-> day_slots]
    ELSE With(ScanStudents(state, sorted_students, 1, day, cat.time_slots[k], cat),
              LAMBDA r :
                 ScanSlots(r.state, sorted_students, day, k + 1,
                           IF r.assigned THEN Append(day_slots, r.slot) ELSE day_slots,
                           cat))

\* roster.py 38-116: the day loop, from the n-th date of the week on
RECURSIVE ScanDays(_, _, _, _, _)
ScanDays(state, sorted_students, n, roster_days, cat) ==
    IF n > Len(week_dates) THEN [ roster_days |-> roster_days, state |-> state ]
    ELSE With(ScanSlots(state, sorted_students, week_dates[n], 1, << >>, cat),
              LAMBDA r :
                 ScanDays(r.state, sorted_students, n + 1,
                          Append(roster_days,
                                 [date |-> week_dates[n], slots |-> r.day_slots]),
                          cat))

\* all the slots of a roster, in roster order
RECURSIVE FlattenDays(_)
FlattenDays(days) ==
    IF days = <<>> THEN <<>> ELSE days[1].slots \o FlattenDays(Tail(days))

\* mutant of Unassigned: the loop stops after the first student it lists
Mut_Unassigned(students, assigned_ids) ==
    LET missing == { i \in 1..Len(students) : students[i].id \notin assigned_ids } IN
    IF missing = {} THEN << >>
    ELSE << [ entity |-> "student", id |-> students[FirstIndex(missing)].id,
              reason |-> "No available slot matched constraints" ] >>

\* roster.py 118-126: the students with zero assignments, in input order
RECURSIVE Unassigned(_, _)
Unassigned(students, assigned_ids) ==
    IF students = <<>> THEN <<>>
    ELSE (IF students[1].id \notin assigned_ids
          THEN << [ entity |-> "student", id |-> students[1].id,
                    reason |-> "No available slot matched constraints" ] >>
          ELSE <<>>) \o Unassigned(Tail(students), assigned_ids)

\* roster.py 32-133, in a process where the last call left the ledger last
\* (<< >> if there was no call).  cat holds the reference catalogs: students,
\* instructors, aircraft, simulators, time_slots.  Returns the dict returned
\* and the ledger of this call.
GenerateCall(cat, last) ==
    With(SortByPriority(cat.students), LAMBDA sorted_students :
    With(ScanDays(BookingState(last), sorted_students, 1, <<>>, cat), LAMBDA scan :
    With(FlattenDays(scan.roster_days), LAMBDA all :
    With({ all[i].student_id : i \in 1..Len(all) }, LAMBDA assigned_ids :
         [ ret |-> [ roster |-> scan.roster_days,
                     unassigned |-> Unassigned(cat.students, assigned_ids) ],
           state |-> scan.state ]))))

\* a call in a new process
generate_roster(cat) == GenerateCall(cat, << >>).ret

(***************************************************************************)
(* app/weather/fetcher.py : WeatherReport and the mock scenarios           *)
(***************************************************************************)

\* Optional[...] : None is the empty tuple, a present value v is << v >>
None == << >>
Some(v) == << v >>

WeatherReport(ceiling_ft, visibility_sm, wind_kt, crosswind_kt, confidence) ==
    [ ceiling_ft |-> ceiling_ft, visibility_sm |-> visibility_sm,
      wind_kt |-> wind_kt, crosswind_kt |-> crosswind_kt,
      confidence |-> confidence ]

_fallback == WeatherReport(None, None, None, None, "unknown")

\* visibility in tenths of a statute mile
get_weather_mock(scenario) ==
    LET good == WeatherReport(Some(5000), Some(100), Some(8), Some(2), "live") IN
    CASE scenario = "good"        -> good
      [] scenario = "low_ceiling" -> WeatherReport(Some(800), Some(80), Some(6), Some(2), "live")
      [] scenario = "low_vis"     -> WeatherReport(Some(3000), Some(20), Some(5), Some(1), "live")
      [] scenario = "high_wind"   -> WeatherReport(Some(4000), Some(80), Some(25), Some(10), "live")
      [] scenario = "unavailable" -> _fallback
      [] OTHER                    -> good

(***************************************************************************)
(* app/weather/fetcher.py : get_weather and its cache                      *)
(***************************************************************************)

CACHE_TTL_MINUTES == 30

\* a WeatherReport object with all its fields; fetched_at in minutes
ReportObject(icao, w, raw_metar, fetched_at) ==
    [ icao |-> icao, ceiling_ft |-> w.ceiling_ft, visibility_sm |-> w.visibility_sm,
      wind_kt |-> w.wind_kt, crosswind_kt |-> w.crosswind_kt, raw_metar |-> raw_metar,
      fetched_at |-> fetched_at, confidence |-> w.confidence ]

\* WeatherReport.is_stale at the time now
is_stale(report, now) == now - report.fetched_at > CACHE_TTL_MINUTES

\* the raw texts _fetch_metar returns in the model
METAR_OVC == "VOBG 010800Z 27006KT 8000 OVC008 18/16 Q1008"
METAR_DIV == "VOBG 010800Z VRB12KT 1/0SM BKN030"

\* _parse_metar raises on this text: the fraction 1/0 divides by zero
ParseRaises(raw) == raw = METAR_DIV

\* _parse_metar on METAR_OVC: the layer OVC008 is 800 ft, 8000 m is 5.0 sm,
\* 27006KT is wind 6 and crosswind int(6 * 0.3)
_parse_metar(icao, raw, now) ==
    ReportObject(icao, WeatherReport(Some(800), Some(50), Some(6), Some(1), "live"), raw, now)

\* _fallback(icao) at the time now
FallbackObject(icao, now) == ReportObject(icao, _fallback, "UNAVAILABLE", now)

\* mutant of FetchLive: the fallback report is cached too
Mut_FetchLive(cache, reports, now, key, fetch) ==
    LET ref == Len(reports) + 1
        failed == fetch.raises \/ ParseRaises(fetch.raw) IN
    [ cache   |-> Put(cache, key, ref),
      reports |-> Append(reports, IF failed THEN FallbackObject(key, now)
                                  ELSE _parse_metar(key, fetch.raw, now)),
      ref     |-> ref,
      fetched |-> TRUE ]

\* get_weather, lines 57-65: reports holds the WeatherReport objects of the
\* process, a reference is an index into it; fetch is what _fetch_metar does
\* in this call (raises, or returns the text raw)
FetchLive(cache, reports, now, key, fetch) ==
    LET ref == Len(reports) + 1 IN
    IF fetch.raises \/ ParseRaises(fetch.raw)
    THEN [ cache   |-> cache,
           reports |-> Append(reports, FallbackObject(key, now)),
           ref     |-> ref,
           fetched |-> TRUE ]
    ELSE [ cache   |-> Put(cache, key, ref),
           reports |-> Append(reports, _parse_metar(key, fetch.raw, now)),
           ref     |-> ref,
           fetched |-> TRUE ]

\* get_weather(icao) at the time now; returns the cache and the objects after
\* the call, the reference returned, and whether _fetch_metar was called
get_weather(cache, reports, now, icao, fetch) ==
    LET key == Upper(icao) IN
    IF key \in DOMAIN cache /\ ~is_stale(reports[cache[key]], now)
    THEN [ cache   |-> cache,
           reports |-> [reports EXCEPT ![cache[key]].confidence = "cached"],
           ref     |-> cache[key],
           fetched |-> FALSE ]
    ELSE FetchLive(cache, reports, now, key, fetch)

(***************************************************************************)
(* app/dispatch/engine.py                                                  *)
(***************************************************************************)

Minima(ceiling_ft, visibility_sm, wind_kt, crosswind_kt) ==
    [ ceiling_ft |-> ceiling_ft, visibility_sm |-> visibility_sm,
      wind_kt |-> wind_kt, crosswind_kt |-> crosswind_kt ]

\* the dict in insertion order; visibility in tenths of a statute mile
STAGE_MINIMA ==
    << [ key |-> PPL1, minima |-> Minima(2500, 80, 10, 8) ],
       [ key |-> PPL2, minima |-> Minima(2500, 80, 10, 8) ],
       [ key |-> PPL3, minima |-> Minima(1500, 50, 15, 12) ],
       [ key |-> PPL4, minima |-> Minima(1500, 50, 15, 12) ] >>

SOLO_MINIMA == Minima(3000, 100, 10, 8)

CITATIONS ==
    [ ceiling     |-> "rules:doc_weather#chunk4",
      visibility  |-> "rules:doc_weather#chunk5",
      wind        |-> "rules:doc_weather#chunk6",
      solo        |-> "rules:doc_weather#chunk7",
      sim_ok      |-> "rules:doc_weather#chunk8",
      unavailable |-> "rules:doc_weather#chunk9" ]

\* mutant of _get_stage_minima: an unmatched stage gets the last entry
Mut_get_stage_minima(stage) ==
    LET matches(i) == StartsWith(stage, STAGE_MINIMA[i].key)
        k == FirstIndex({ i \in 1..Len(STAGE_MINIMA) : matches(i) })
    IN IF k /= 0 THEN STAGE_MINIMA[k].minima
       ELSE STAGE_MINIMA[Len(STAGE_MINIMA)].minima

_get_stage_minima(stage) ==
    LET matches(i) == StartsWith(stage, STAGE_MINIMA[i].key)
        k == FirstIndex({ i \in 1..Len(STAGE_MINIMA) : matches(i) })
    IN IF k /= 0 THEN STAGE_MINIMA[k].minima ELSE STAGE_MINIMA[1].minima

\* mutant of _check_violations: a value equal to its threshold is a violation
Mut_check_violations(weather, minima, is_solo) ==
    (IF weather.ceiling_ft /= None /\ weather.ceiling_ft[1] <= minima.ceiling_ft
     THEN << "WX_BELOW_CEILING_MINIMA" >> ELSE << >>)
    \o (IF weather.visibility_sm /= None
           /\ weather.visibility_sm[1] <= minima.visibility_sm
        THEN << "WX_BELOW_VIS_MINIMA" >> ELSE << >>)
    \o (IF weather.wind_kt /= None /\ weather.wind_kt[1] >= minima.wind_kt
        THEN << "WX_WIND_EXCEEDED" >> ELSE << >>)
    \o (IF weather.crosswind_kt /= None /\ weather.crosswind_kt[1] >= minima.crosswind_kt
        THEN << "WX_CROSSWIND_EXCEEDED" >> ELSE << >>)

_check_violations(weather, minima, is_solo) ==
    (IF weather.ceiling_ft /= None /\ weather.ceiling_ft[1] < minima.ceiling_ft
     THEN << "WX_BELOW_CEILING_MINIMA" >> ELSE << >>)
    \o (IF weather.visibility_sm /= None
           /\ weather.visibility_sm[1] < minima.visibility_sm
        THEN << "WX_BELOW_VIS_MINIMA" >> ELSE << >>)
    \o (IF weather.wind_kt /= None /\ weather.wind_kt[1] > minima.wind_kt
        THEN << "WX_WIND_EXCEEDED" >> ELSE << >>)
    \o (IF weather.crosswind_kt /= None /\ weather.crosswind_kt[1] > minima.crosswind_kt
        THEN << "WX_CROSSWIND_EXCEEDED" >> ELSE << >>)

\* mutant of _find_available_sim: the last simulator with room, not the first
Mut_find_available_sim(slot, simulators, sim_slots_used) ==
    LET has_room(i) ==
            Get(Get(sim_slots_used, simulators[Len(simulators) + 1 - i].id, EmptyDict),
                slot.date, 0)
                < simulators[Len(simulators) + 1 - i].max_sessions_per_day
        k == FirstIndex({ i \in 1..Len(simulators) : has_room(i) })
    IN IF k = 0 THEN 0 ELSE Len(simulators) + 1 - k

\* mutant of _find_available_sim: a simulator whose count equals its cap still
\* has room
Mut_find_available_sim_at_cap(slot, simulators, sim_slots_used) ==
    LET has_room(i) ==
            Get(Get(sim_slots_used, simulators[i].id, EmptyDict), slot.date, 0)
                <= simulators[i].max_sessions_per_day
    IN FirstIndex({ i \in 1..Len(simulators) : has_room(i) })

\* sim_slots_used: sim_id -> {date -> count}; returns the index of the
\* simulator, 0 for None
_find_available_sim(slot, simulators, sim_slots_used) ==
    LET date_str == slot.date
        has_room(i) ==
            Get(Get(sim_slots_used, simulators[i].id, EmptyDict), date_str, 0)
                < simulators[i].max_sessions_per_day
    IN FirstIndex({ i \in 1..Len(simulators) : has_room(i) })

\* engine.py 53-58: a SIM slot is GO whatever the weather
SimGo(slot) ==
    [slot EXCEPT !.dispatch_decision = "GO",
                 !.reasons = << "SIM_NO_WEATHER_REQUIRED" >>,
                 !.citations = << CITATIONS.sim_ok >>]

\* engine.py 61-65: no weather, so the slot is left to a human
NeedsReview(slot) ==
    [slot EXCEPT !.dispatch_decision = "NEEDS_REVIEW",
                 !.reasons = << "WEATHER_UNAVAILABLE" >>,
                 !.citations = << CITATIONS.unavailable >>]

\* engine.py 67-95: the report is compared with the minima
EvaluateWeather(slot, student, weather, simulators, sim_slots_used) ==
    LET is_solo    == slot.sortie_type = "SOLO"
        minima     == IF is_solo THEN SOLO_MINIMA ELSE _get_stage_minima(student.stage)
        violations == _check_violations(weather, minima, is_solo)
        sim        == _find_available_sim(slot, simulators, sim_slots_used)
    IN
    IF violations = << >>
    THEN [slot EXCEPT !.dispatch_decision = "GO",
                      !.reasons = << "WX_ABOVE_MINIMA" >>,
                      !.citations = << CITATIONS.ceiling, CITATIONS.visibility >>]
    ELSE IF sim /= 0
    THEN [slot EXCEPT !.activity = "SIM",
                      !.sortie_type = "SIM_PROCEDURES",
                      !.resource_id = simulators[sim].id,
                      !.dispatch_decision = "NO_GO",
                      !.reasons = violations \o << "CONVERTED_TO_SIM" >>,
                      !.citations = << CITATIONS.ceiling, CITATIONS.visibility,
                                       CITATIONS.sim_ok >>]
    ELSE [slot EXCEPT !.dispatch_decision = "NO_GO",
                      !.reasons = violations \o << "NO_SIM_AVAILABLE" >>,
                      !.citations = << CITATIONS.ceiling, CITATIONS.visibility >>]

\* mutant of check_dispatch: the confidence of the report is not looked at
Mut_check_dispatch_no_review(slot, student, weather, simulators, sim_slots_used) ==
    IF slot.activity = "SIM" THEN SimGo(slot)
    ELSE EvaluateWeather(slot, student, weather, simulators, sim_slots_used)

\* mutant of check_dispatch: the confidence is tested before the activity
Mut_check_dispatch_review_first(slot, student, weather, simulators, sim_slots_used) ==
    IF weather.confidence = "unknown" THEN NeedsReview(slot)
    ELSE IF slot.activity = "SIM" THEN SimGo(slot)
    ELSE EvaluateWeather(slot, student, weather, simulators, sim_slots_used)

check_dispatch(slot, student, weather, simulators, sim_slots_used) ==
    IF slot.activity = "SIM" THEN SimGo(slot)
    ELSE IF weather.confidence = "unknown" THEN NeedsReview(slot)
    ELSE EvaluateWeather(slot, student, weather, simulators, sim_slots_used)

(***************************************************************************)
(* The objects of one call of check_dispatch.  A name of the code is bound  *)
(* to an object; objects live in a store, address -> object, and a list     *)
(* held by a dict is held by its address, so that a write through one name  *)
(* is seen through every other name of the same object.                    *)
(***************************************************************************)

SlotRef        == << "slot" >>
ReasonsRef     == << "slot", "reasons" >>
CitationsRef   == << "slot", "citations" >>
StudentRef     == << "student" >>
SimulatorsRef  == << "simulators" >>
SimSlotsUsedRef == << "sim_slots_used" >>

\* the objects the caller passes: the slot dict with its two lists, the
\* student, the list of simulators and the counter
InputObjects(args) ==
    ( SlotRef :> [args.slot EXCEPT !.reasons = ReasonsRef,
                                   !.citations = CitationsRef] )
    @@ ( ReasonsRef :> args.slot.reasons )
    @@ ( CitationsRef :> args.slot.citations )
    @@ ( StudentRef :> args.student )
    @@ ( SimulatorsRef :> args.simulators )
    @@ ( SimSlotsUsedRef :> args.sim_slots_used )

\* the slot dict at an address, its lists read through their addresses
SlotAt(store, ref) ==
    [store[ref] EXCEPT !.reasons = store[@], !.citations = store[@]]

\* mutant of ShallowCopy: no copy is made, the name is bound to the caller's dict
Mut_ShallowCopy(store, ref) ==
    [ store |-> store, ref |-> ref ]

\* engine.py 51: dict(slot) is a new dict that holds the same values (the two
\* lists are shared with the original)
ShallowCopy(store, ref) ==
    [ store |-> Put(store, << "copy" >>, store[ref]), ref |-> << "copy" >> ]

\* slot[key] = value, for a str value
SetItem(store, ref, key, value) ==
    [store EXCEPT ![ref][key] = value]

\* slot[key] = [...]: a new list object is built and the dict holds it
SetNewList(store, ref, key, elems) ==
    [ Put(store, << "new", key >>, elems) EXCEPT ![ref][key] = << "new", key >> ]

\* engine.py 51-95 on the store: the copy, then the item assignments of the
\* branch taken (55-57, 62-64, 75-77, 83-88 or 92-94) with the values
\* check_dispatch computes.  Returns the store after the call and the address
\* of the dict returned.
check_dispatch_objects(store, weather) ==
    With(ShallowCopy(store, SlotRef), LAMBDA c :
    With(SlotAt(c.store, c.ref), LAMBDA slot :
    With(check_dispatch(slot, c.store[StudentRef], weather,
                        c.store[SimulatorsRef], c.store[SimSlotsUsedRef]),
         LAMBDA r :
    With(IF r.activity /= slot.activity                          \* 83-85
         THEN SetItem(SetItem(SetItem(c.store, c.ref, "activity", r.activity),
                              c.ref, "sortie_type", r.sortie_type),
                      c.ref, "resource_id", r.resource_id)
         ELSE c.store,
         LAMBDA s1 :
         [ store |-> SetNewList(
                        SetNewList(
                           SetItem(s1, c.ref, "dispatch_decision", r.dispatch_decision),
                           c.ref, "reasons", r.reasons),
                        c.ref, "citations", r.citations),
           ref |-> c.ref ]))))

\* sim_slots_used[rid][date] = sim_slots_used[rid].get(date, 0) + 1
CountSim(sim_slots_used, rid, date) ==
    LET inner == Get(sim_slots_used, rid, EmptyDict) IN
    Put(sim_slots_used, rid, Put(inner, date, Get(inner, date, 0) + 1))

\* students_map[student_id]
StudentById(students, student_id) ==
    students[CHOOSE i \in 1..Len(students) : students[i].id = student_id]

\* api/main.py 103-116: the slot loop of one day of the dispatch scan, from
\* slot k on.  Returns [slots, used].
RECURSIVE DispatchDay(_, _, _, _, _, _, _)
DispatchDay(slots, k, updated_slots, students, weather, simulators, sim_slots_used) ==
    IF k > Len(slots) THEN [slots |-> updated_slots, used |-> sim_slots_used]
    ELSE With(check_dispatch(slots[k], StudentById(students, slots[k].student_id),
                             weather, simulators, sim_slots_used),
              LAMBDA updated :
         With(IF updated.activity = "SIM"
              THEN CountSim(sim_slots_used, updated.resource_id, slots[k].date)
              ELSE sim_slots_used,
              LAMBDA used :
         With(Append(updated_slots, updated),
              LAMBDA appended :
                 DispatchDay(slots, k + 1, appended, students, weather,
                             simulators, used))))

\* api/main.py 101-118: the dispatch scan of a roster, from day n on
RECURSIVE DispatchDays(_, _, _, _, _, _)
DispatchDays(days, n, students, weather, simulators, sim_slots_used) ==
    IF n > Len(days) THEN days
    ELSE With(DispatchDay(days[n].slots, 1, << >>, students, weather,
                          simulators, sim_slots_used),
              LAMBDA r :
         With([days EXCEPT ![n].slots = r.slots],
              LAMBDA updated_days :
                 DispatchDays(updated_days, n + 1, students, weather,
                              simulators, r.used)))

DispatchScan(roster_days, students, weather, simulators) ==
    DispatchDays(roster_days, 1, students, weather, simulators, EmptyDict)

(***************************************************************************)
(* app/reallocation/engine.py                                              *)
(***************************************************************************)

\* from_time and to_time are None or Some(day): only their date is read.
\* entity_id None is the string "None", which is no id of the catalogs.
DisruptionEvent(event_type, entity_id, from_time, to_time, metadata, correlation_id) ==
    [ event_type |-> event_type, entity_id |-> entity_id,
      from_time |-> from_time, to_time |-> to_time,
      metadata |-> metadata, correlation_id |-> correlation_id ]

\* mutant of IsAffected: an unserviceable aircraft affects every FLIGHT slot
Mut_IsAffected_any_aircraft(slot, event) ==
    IF /\ event.from_time /= None /\ event.to_time /= None
       /\ ~(event.from_time[1] <= slot.date /\ slot.date <= event.to_time[1])
    THEN FALSE
    ELSE IF event.event_type = "WEATHER_UPDATE"
    THEN slot.activity = "FLIGHT"
    ELSE IF event.event_type = "AIRCRAFT_UNSERVICEABLE"
    THEN slot.activity = "FLIGHT"
    ELSE IF event.event_type = "INSTRUCTOR_UNAVAILABLE"
    THEN slot.instructor_id = event.entity_id
    ELSE IF event.event_type = "STUDENT_UNAVAILABLE"
    THEN slot.student_id = event.entity_id
    ELSE FALSE

\* mutant of IsAffected: the two ends of the date window are excluded
Mut_IsAffected_open_window(slot, event) ==
    IF /\ event.from_time /= None /\ event.to_time /= None
       /\ ~(event.from_time[1] < slot.date /\ slot.date < event.to_time[1])
    THEN FALSE
    ELSE IF event.event_type = "WEATHER_UPDATE"
    THEN slot.activity = "FLIGHT"
    ELSE IF event.event_type = "AIRCRAFT_UNSERVICEABLE"
    THEN slot.resource_id = event.entity_id /\ slot.activity = "FLIGHT"
    ELSE IF event.event_type = "INSTRUCTOR_UNAVAILABLE"
    THEN slot.instructor_id = event.entity_id
    ELSE IF event.event_type = "STUDENT_UNAVAILABLE"
    THEN slot.student_id = event.entity_id
    ELSE FALSE

\* engine.py 50-72: the test of one slot
IsAffected(slot, event) ==
    IF /\ event.from_time /= None /\ event.to_time /= None
       /\ ~(event.from_time[1] <= slot.date /\ slot.date <= event.to_time[1])
    THEN FALSE
    ELSE IF event.event_type = "WEATHER_UPDATE"
    THEN slot.activity = "FLIGHT"
    ELSE IF event.event_type = "AIRCRAFT_UNSERVICEABLE"
    THEN slot.resource_id = event.entity_id /\ slot.activity = "FLIGHT"
    ELSE IF event.event_type = "INSTRUCTOR_UNAVAILABLE"
    THEN slot.instructor_id = event.entity_id
    ELSE IF event.event_type = "STUDENT_UNAVAILABLE"
    THEN slot.student_id = event.entity_id
    ELSE FALSE

identify_affected_slots(roster, event) ==
    SelectSeq(FlattenDays(roster.roster), LAMBDA slot : IsAffected(slot, event))

\* {s["slot_id"]: s for day in ... for s in ...}: the keys in the order of their
\* first occurrence, each with the value of its last occurrence
RECURSIVE DictKeys(_, _)
DictKeys(slots, seen) ==
    IF slots = << >> THEN << >>
    ELSE IF slots[1].slot_id \in seen THEN DictKeys(Tail(slots), seen)
    ELSE << slots[1].slot_id >> \o DictKeys(Tail(slots), seen \cup {slots[1].slot_id})

SlotsById(slots) ==
    LET keys == DictKeys(slots, {}) IN
    [ keys |-> keys,
      at   |-> [ sid \in { keys[i] : i \in 1..Len(keys) } |->
                   slots[CHOOSE i \in 1..Len(slots) :
                           /\ slots[i].slot_id = sid
                           /\ \A j \in (i + 1)..Len(slots) : slots[j].slot_id /= sid] ] ]

\* mutant of DiffKeys: reasons is compared too
Mut_DiffKeys == << "activity", "student_id", "instructor_id", "resource_id",
                   "sortie_type", "dispatch_decision", "reasons" >>

DiffKeys == << "activity", "student_id", "instructor_id", "resource_id",
               "sortie_type", "dispatch_decision" >>

\* engine.py 85-102: the entries of added, removed and modified, from the two
\* slot_id dicts
DiffOf(old_slots, new_slots) ==
    LET old_ids   == DOMAIN old_slots.at
        new_ids   == DOMAIN new_slots.at
        added_ids   == SelectSeq(new_slots.keys, LAMBDA sid : sid \notin old_ids)
        removed_ids == SelectSeq(old_slots.keys, LAMBDA sid : sid \notin new_ids)
        changes(sid) ==
            LET changed == { k \in { DiffKeys[i] : i \in 1..Len(DiffKeys) } :
                               old_slots.at[sid][k] /= new_slots.at[sid][k] }
            IN [ k \in changed |-> [ old |-> old_slots.at[sid][k],
                                     new |-> new_slots.at[sid][k] ] ]
    IN [ added    |-> [ i \in 1..Len(added_ids) |-> new_slots.at[added_ids[i]] ],
         removed  |-> [ i \in 1..Len(removed_ids) |-> old_slots.at[removed_ids[i]] ],
         modified |-> { [ slot_id |-> sid, changes |-> changes(sid) ] :
                          sid \in { x \in old_ids \cap new_ids :
                                      DOMAIN changes(x) /= {} } } ]

\* mutant of compute_roster_diff: the modified entries are not counted
Mut_compute_roster_diff(old_roster, new_roster) ==
    With(SlotsById(FlattenDays(old_roster.roster)), LAMBDA old_slots :
    With(SlotsById(FlattenDays(new_roster.roster)), LAMBDA new_slots :
    With(DiffOf(old_slots, new_slots), LAMBDA d :
         [ added |-> d.added, removed |-> d.removed, modified |-> d.modified,
           total_changes |-> Len(d.added) + Len(d.removed) ])))

\* modified is built by iterating over a set of slot ids, whose order Python
\* does not fix: it is kept as a set of entries
compute_roster_diff(old_roster, new_roster) ==
    With(SlotsById(FlattenDays(old_roster.roster)), LAMBDA old_slots :
    With(SlotsById(FlattenDays(new_roster.roster)), LAMBDA new_slots :
    With(DiffOf(old_slots, new_slots), LAMBDA d :
         [ added |-> d.added, removed |-> d.removed, modified |-> d.modified,
           total_changes |-> Len(d.added) + Len(d.removed) + Cardinality(d.modified) ])))

\* mutant of compute_churn_rate: the ratio is not scaled to a percentage
Mut_compute_churn_rate(diff, total_slots) ==
    IF total_slots = 0 THEN [ num |-> 0, den |-> 1 ]
    ELSE [ num |-> diff.total_changes, den |-> total_slots ]

\* the float (total_changes / total_slots) * 100 as the fraction num / den
compute_churn_rate(diff, total_slots) ==
    IF total_slots = 0 THEN [ num |-> 0, den |-> 1 ]
    ELSE [ num |-> diff.total_changes * 100, den |-> total_slots ]

\* mutant of RedispatchDay: every slot is passed to check_dispatch, as in the
\* dispatch scan
Mut_RedispatchDay(slots, k, updated_slots, students, weather, simulators, sim_slots_used) ==
    DispatchDay(slots, k, updated_slots, students, weather, simulators, sim_slots_used)

\* engine.py 163-180: the slot loop of one day of the weather replanning
RECURSIVE RedispatchDay(_, _, _, _, _, _, _)
RedispatchDay(slots, k, updated_slots, students, weather, simulators, sim_slots_used) ==
    IF k > Len(slots) THEN [slots |-> updated_slots, used |-> sim_slots_used]
    ELSE IF slots[k].activity = "FLIGHT"
    THEN With(check_dispatch(slots[k], StudentById(students, slots[k].student_id),
                             weather, simulators, sim_slots_used),
              LAMBDA updated :
         With(IF updated.activity = "SIM"
              THEN CountSim(sim_slots_used, updated.resource_id, slots[k].date)
              ELSE sim_slots_used,
              LAMBDA used :
         With(Append(updated_slots, updated),
              LAMBDA appended :
                 RedispatchDay(slots, k + 1, appended, students, weather,
                               simulators, used))))
    ELSE With(Append(updated_slots, slots[k]),
              LAMBDA appended :
                 RedispatchDay(slots, k + 1, appended, students, weather,
                               simulators, sim_slots_used))

\* engine.py 163-180: the day loop of the weather replanning
RECURSIVE RedispatchDays(_, _, _, _, _, _)
RedispatchDays(days, n, students, weather, simulators, sim_slots_used) ==
    IF n > Len(days) THEN days
    ELSE With(RedispatchDay(days[n].slots, 1, << >>, students, weather,
                            simulators, sim_slots_used),
              LAMBDA r :
         With([days EXCEPT ![n].slots = r.slots],
              LAMBDA updated_days :
                 RedispatchDays(updated_days, n + 1, students, weather,
                                simulators, r.used)))

\* f"{event.event_type}_DISRUPTION", for the event types that reach it
DisruptionReason(event_type) ==
    CASE event_type = "AIRCRAFT_UNSERVICEABLE" -> "AIRCRAFT_UNSERVICEABLE_DISRUPTION"
      [] event_type = "INSTRUCTOR_UNAVAILABLE" -> "INSTRUCTOR_UNAVAILABLE_DISRUPTION"
      [] event_type = "STUDENT_UNAVAILABLE"    -> "STUDENT_UNAVAILABLE_DISRUPTION"

\* mutant of FlagSlot: the flagged slot also gives up its resource
Mut_FlagSlot(slot, affected, event) ==
    IF \E i \in 1..Len(affected) : affected[i] = slot
    THEN [slot EXCEPT !.dispatch_decision = "NEEDS_REVIEW",
                      !.reasons = << DisruptionReason(event.event_type) >>,
                      !.citations = << "rules:doc_dispatch#disruption" >>,
                      !.resource_id = "None"]
    ELSE slot

\* engine.py 182-189: the affected slots are flagged, nothing is reassigned
FlagSlot(slot, affected, event) ==
    IF \E i \in 1..Len(affected) : affected[i] = slot
    THEN [slot EXCEPT !.dispatch_decision = "NEEDS_REVIEW",
                      !.reasons = << DisruptionReason(event.event_type) >>,
                      !.citations = << "rules:doc_dispatch#disruption" >>]
    ELSE slot

\* mutant of ApplyDisruption: the affected slots of an entity event are
\* removed from the roster
Mut_ApplyDisruption(current_roster, event, affected, students, simulators, weather_data) ==
    LET days == current_roster.roster IN
    IF event.event_type = "WEATHER_UPDATE"
    THEN With(IF weather_data /= None THEN weather_data[1]
              ELSE get_weather_mock(Get(event.metadata, "weather_scenario", "good")),
              LAMBDA weather :
                 RedispatchDays(days, 1, students, weather, simulators, EmptyDict))
    ELSE IF event.event_type \in { "AIRCRAFT_UNSERVICEABLE",
                                   "INSTRUCTOR_UNAVAILABLE",
                                   "STUDENT_UNAVAILABLE" }
    THEN [ n \in 1..Len(days) |->
             [ days[n] EXCEPT !.slots =
                 SelectSeq(days[n].slots,
                           LAMBDA slot : \A i \in 1..Len(affected) : affected[i] /= slot) ] ]
    ELSE days

\* engine.py 153-189: the slots of the modified roster
ApplyDisruption(current_roster, event, affected, students, simulators, weather_data) ==
    LET days == current_roster.roster IN
    IF event.event_type = "WEATHER_UPDATE"
    THEN With(IF weather_data /= None THEN weather_data[1]
              ELSE get_weather_mock(Get(event.metadata, "weather_scenario", "good")),
              LAMBDA weather :
                 RedispatchDays(days, 1, students, weather, simulators, EmptyDict))
    ELSE IF event.event_type \in { "AIRCRAFT_UNSERVICEABLE",
                                   "INSTRUCTOR_UNAVAILABLE",
                                   "STUDENT_UNAVAILABLE" }
    THEN [ n \in 1..Len(days) |->
             [ days[n] EXCEPT !.slots =
                 [ k \in 1..Len(days[n].slots) |->
                     FlagSlot(days[n].slots[k], affected, event) ] ] ]
    ELSE days

\* weather_data is None or Some(report); of the catalogs only the students and
\* the simulators are read
reallocate_roster(current_roster, event, students, simulators, weather_data) ==
    With(identify_affected_slots(current_roster, event), LAMBDA affected :
    With([current_roster EXCEPT !.roster =
             ApplyDisruption(current_roster, event, affected, students,
                             simulators, weather_data)],
         LAMBDA modified_roster :
    With(compute_roster_diff(current_roster, modified_roster), LAMBDA diff :
         [ new_roster     |-> modified_roster,
           diff           |-> diff,
           affected_slots |-> affected,
           churn_rate     |-> compute_churn_rate(diff,
                                 Len(FlattenDays(current_roster.roster))),
           correlation_id |-> event.correlation_id,
           event_type     |-> event.event_type ])))

(***************************************************************************)
(* Inputs of the dispatch and reallocation calls                           *)
(***************************************************************************)

\* largest number of reallocations applied to one roster
MaxReallocs == 1

\* largest number of get_weather calls in one process
MaxCalls == 2

\* last minute of the clock
MaxNow == 31

\* number of reallocate requests the server receives
MaxRequests == 3

\* the catalogs the dispatch / reallocation pipeline is run on; the last
\* disjunct is a week in which nobody requires a sortie (an empty roster)
PipelineCatalogs ==
    { c \in Catalogs :
        /\ c.students[1].priority = 1
        /\ c.students[2].stage = PPL4
        /\ c.aircraft[1].status = "AVAILABLE"
        /\ c.time_slots[1].id = "AM1"
        /\ \/ c.students[1].required_sorties_per_week >= 1
           \/ /\ c.students[1].required_sorties_per_week = 0
              /\ c.students[2].required_sorties_per_week = 0
              /\ c.instructors[1].max_duty_hours_per_day = 3
              /\ c.instructors[2].sim_instructor
              /\ c.simulators[1].max_sessions_per_day = 1
              /\ DOMAIN c.aircraft[1].availability_windows = { "Mon", "Tue" } }

\* the catalogs whose rosters the reallocation is followed on object by
\* object: both students require sorties and the simulator takes one session
ObjectCatalogs ==
    { c \in PipelineCatalogs :
        /\ c.students[1].required_sorties_per_week = MaxRequired
        /\ c.students[2].required_sorties_per_week = 1
        /\ c.simulators[1].max_sessions_per_day = 1 }

Scenarios == { "good", "low_ceiling", "low_vis", "high_wind", "unavailable" }

\* the reports a dispatch scan is run under
DispatchWeathers == { get_weather_mock(sc) : sc \in Scenarios }

(***************************************************************************)
(* app/ingestion/job.py                                                    *)
(***************************************************************************)

\* largest number of rows of ingestion_runs
MaxRuns == 3

\* the tables in the order run_ingestion fills them; time_slots is the one
\* whose existing rows are never updated
TableNames == << "students", "instructors", "aircraft", "simulators", "time_slots",
                "rules_docs" >>

\* two states of the bucket: the second changes a student, adds one, and
\* changes and adds a time slot
Row(v) == [ data |-> v ]

BucketA ==
    [ students    |-> [ id \in {"S1"} |-> Row("a") ],
      instructors |-> [ id \in {"I1"} |-> Row("a") ],
      aircraft    |-> [ id \in {"A1"} |-> Row("a") ],
      simulators  |-> [ id \in {"SIM1"} |-> Row("a") ],
      time_slots  |-> [ id \in {"AM1"} |-> Row("a") ],
      rules_docs  |-> [ id \in {"doc_weather", "doc_dispatch"} |-> Row("a") ] ]

BucketB ==
    [ BucketA EXCEPT
        !.students   = [ id \in {"S1", "S2"} |-> Row("b") ],
        !.time_slots = [ id \in {"AM1", "PM1"} |-> Row("b") ] ]

Buckets == { BucketA, BucketB }

\* where a run raises: nowhere, in the first upsert, in the last, at the commit
FailPoints == { 0, 1, 6, 7 }

\* _bucket_hash: the md5 of the files, taken as one-to-one, so the files
\* themselves stand for it
_bucket_hash(files) == files

\* job.py 46-139, 160-183: rows of the file are added, or updated where they
\* differ; rows the file does not name stay
Upsert(table, records) ==
    [ rows |-> [ id \in DOMAIN table \cup DOMAIN records |->
                   IF id \in DOMAIN records THEN records[id] ELSE table[id] ],
      diff |-> [ upserted  |-> { id \in DOMAIN records :
                                   id \notin DOMAIN table \/ table[id] /= records[id] },
                 unchanged |-> { id \in DOMAIN records :
                                   id \in DOMAIN table /\ table[id] = records[id] } ] ]

\* job.py 142-157: a time slot is added if its id is new and left alone if not
_upsert_time_slots(table, records) ==
    [ rows |-> [ id \in DOMAIN table \cup DOMAIN records |->
                   IF id \in DOMAIN table THEN table[id] ELSE records[id] ],
      diff |-> [ upserted  |-> DOMAIN records \ DOMAIN table,
                 unchanged |-> DOMAIN records \cap DOMAIN table ] ]

UpsertTable(name, table, records) ==
    IF name = "time_slots" THEN _upsert_time_slots(table, records)
    ELSE Upsert(table, records)

IngestionRun(source_hash, status, diff_summary) ==
    [ source_hash |-> source_hash, status |-> status, diff_summary |-> diff_summary ]

\* job.py 209-213: the row with the largest id, None for an empty table
LastRun(runs) == IF runs = << >> THEN None ELSE Some(runs[Len(runs)])

\* job.py 208-214: the idempotency check
Skips(runs, bucket_hash, force) ==
    /\ ~force
    /\ LastRun(runs) /= None
    /\ LastRun(runs)[1].source_hash = bucket_hash

\* job.py 200-248 on the committed rows.  fail_at is where the run raises:
\* 0 nowhere, k in 1..6 in the k-th upsert, 7 at the commit.  The rows a run
\* adds or changes are pending until the commit, and the rollback drops them.
run_ingestion(rows, files, force, fail_at) ==
    LET bucket_hash == _bucket_hash(files)
        upserts == [ k \in 1..Len(TableNames) |->
                       UpsertTable(TableNames[k], rows.tables[TableNames[k]],
                                   files[TableNames[k]]) ]
        diff_summary == [ name \in { TableNames[k] : k \in 1..Len(TableNames) } |->
                            upserts[CHOOSE k \in 1..Len(TableNames) :
                                        TableNames[k] = name].diff ]
    IN IF Skips(rows.ingestion_runs, bucket_hash, force)
       THEN [ db |-> rows, status |-> "skipped" ]
       ELSE IF fail_at = 0
       THEN [ db |-> [ tables |-> [ name \in DOMAIN rows.tables |->
                                      upserts[CHOOSE k \in 1..Len(TableNames) :
                                                  TableNames[k] = name].rows ],
                       ingestion_runs |->
                           Append(rows.ingestion_runs,
                                  IngestionRun(bucket_hash, "success", diff_summary)) ],
              status |-> "success" ]
       ELSE [ db |-> [ tables |-> rows.tables,
                       ingestion_runs |->
                           Append(rows.ingestion_runs,
                                  IngestionRun(bucket_hash, "failed",
                                               [ error |-> fail_at ])) ],
              status |-> "raised" ]

(***************************************************************************)
(* The objects of one call of reallocate_roster.  The roster dict, its     *)
(* list of days, each day dict, its list of slots, each slot dict and its  *)
(* two lists are objects of the store; a dict or list holds another by its *)
(* address << root, kind, n, k >> (day n, slot k, 0 where there is none).  *)
(***************************************************************************)

Ref(root, kind, n, k) == << root, kind, n, k >>

\* the objects of a roster that shares nothing, under the given root
RosterObjects(r, root) ==
    LET days == r.roster
        dayIdx == 1..Len(days)
        slotIdx == UNION { { << n, k >> : k \in 1..Len(days[n].slots) } : n \in dayIdx }
    IN (Ref(root, "roster", 0, 0) :> [r EXCEPT !.roster = Ref(root, "days", 0, 0)])
       @@ (Ref(root, "days", 0, 0) :> [ n \in dayIdx |-> Ref(root, "day", n, 0) ])
       @@ [ ref \in { Ref(root, "day", n, 0) : n \in dayIdx } |->
              [days[ref[3]] EXCEPT !.slots = Ref(root, "slots", ref[3], 0)] ]
       @@ [ ref \in { Ref(root, "slots", n, 0) : n \in dayIdx } |->
              [ k \in 1..Len(days[ref[3]].slots) |-> Ref(root, "slot", ref[3], k) ] ]
       @@ [ ref \in { Ref(root, "slot", x[1], x[2]) : x \in slotIdx } |->
              [days[ref[3]].slots[ref[4]] EXCEPT
                  !.reasons = Ref(root, "reasons", ref[3], ref[4]),
                  !.citations = Ref(root, "citations", ref[3], ref[4])] ]
       @@ [ ref \in { Ref(root, "reasons", x[1], x[2]) : x \in slotIdx } |->
              days[ref[3]].slots[ref[4]].reasons ]
       @@ [ ref \in { Ref(root, "citations", x[1], x[2]) : x \in slotIdx } |->
              days[ref[3]].slots[ref[4]].citations ]

\* the day dict at an address, read through the addresses it holds
DayValue(store, ref) ==
    LET slots == store[store[ref].slots] IN
    [store[ref] EXCEPT !.slots = [ k \in 1..Len(slots) |-> SlotAt(store, slots[k]) ]]

\* the roster dict at an address, read through the addresses it holds
RosterValue(store, ref) ==
    LET days == store[store[ref].roster] IN
    [store[ref] EXCEPT !.roster = [ n \in 1..Len(days) |-> DayValue(store, days[n]) ]]

\* mutant of DeepCopy: dict(current_roster), a new roster dict that holds the
\* caller's list of days
Mut_DeepCopy(store, ref) ==
    [ store |-> (Ref("copy", "roster", 0, 0) :> store[ref]) @@ store,
      ref   |-> Ref("copy", "roster", 0, 0) ]

\* engine.py 151: deepcopy(current_roster), new objects all the way down
DeepCopy(store, ref) ==
    [ store |-> RosterObjects(RosterValue(store, ref), "copy") @@ store,
      ref   |-> Ref("copy", "roster", 0, 0) ]

\* engine.py 163-180 on the store: per day of the modified roster a new list
\* updated_slots, holding for a FLIGHT slot the dict check_dispatch returns (a
\* new dict with new reasons and citations lists) and for any other slot the
\* dict the day held; then day["slots"] = updated_slots.  new_days are the
\* values the loop computes.
RedispatchObjects(store, m, new_days) ==
    LET dayrefs == store[store[m].roster]
        dayIdx  == 1..Len(dayrefs)
        held(n) == store[store[dayrefs[n]].slots]
        flights == UNION { { << n, k >> : k \in { j \in 1..Len(held(n)) :
                                 SlotAt(store, held(n)[j]).activity = "FLIGHT" } }
                           : n \in dayIdx }
    IN [ ref \in { Ref("updated", "slots", n, 0) : n \in dayIdx } |->
           [ k \in 1..Len(held(ref[3])) |->
               IF << ref[3], k >> \in flights
               THEN Ref("updated", "slot", ref[3], k) ELSE held(ref[3])[k] ] ]
       @@ [ ref \in { Ref("updated", "slot", x[1], x[2]) : x \in flights } |->
              [new_days[ref[3]].slots[ref[4]] EXCEPT
                  !.reasons = Ref("updated", "reasons", ref[3], ref[4]),
                  !.citations = Ref("updated", "citations", ref[3], ref[4])] ]
       @@ [ ref \in { Ref("updated", "reasons", x[1], x[2]) : x \in flights } |->
              new_days[ref[3]].slots[ref[4]].reasons ]
       @@ [ ref \in { Ref("updated", "citations", x[1], x[2]) : x \in flights } |->
              new_days[ref[3]].slots[ref[4]].citations ]
       @@ [ ref \in DOMAIN store |->
              IF \E n \in dayIdx : dayrefs[n] = ref
              THEN [store[ref] EXCEPT !.slots =
                       Ref("updated", "slots",
                           CHOOSE n \in dayIdx : dayrefs[n] = ref, 0)]
              ELSE store[ref] ]

\* engine.py 184-189 on the store: the item assignments to each slot dict of
\* the modified roster that equals an affected slot
FlagObjects(store, m, affected, event) ==
    LET dayrefs == store[store[m].roster]
        held(n) == store[store[dayrefs[n]].slots]
        hit     == UNION { { << n, k >> : k \in { j \in 1..Len(held(n)) :
                                 \E i \in 1..Len(affected) :
                                     affected[i] = SlotAt(store, held(n)[j]) } }
                           : n \in 1..Len(dayrefs) }
        hitRefs == { held(x[1])[x[2]] : x \in hit }
        at(ref) == CHOOSE x \in hit : held(x[1])[x[2]] = ref
    IN [ ref \in { Ref("flag", "reasons", x[1], x[2]) : x \in hit } |->
           << DisruptionReason(event.event_type) >> ]
       @@ [ ref \in { Ref("flag", "citations", x[1], x[2]) : x \in hit } |->
              << "rules:doc_dispatch#disruption" >> ]
       @@ [ ref \in DOMAIN store |->
              IF ref \in hitRefs
              THEN [store[ref] EXCEPT
                      !.dispatch_decision = "NEEDS_REVIEW",
                      !.reasons = Ref("flag", "reasons", at(ref)[1], at(ref)[2]),
                      !.citations = Ref("flag", "citations", at(ref)[1], at(ref)[2])]
              ELSE store[ref] ]

\* engine.py 147-189 on the store that holds current_roster at root "in".
\* Returns the store after the call and the address of modified_roster.
reallocate_roster_objects(store, event, students, simulators, weather_data) ==
    LET current_roster == RosterValue(store, Ref("in", "roster", 0, 0))
        affected == identify_affected_slots(current_roster, event)
        c == DeepCopy(store, Ref("in", "roster", 0, 0))
    IN IF event.event_type = "WEATHER_UPDATE"
       THEN [ store |-> RedispatchObjects(c.store, c.ref,
                           ApplyDisruption(RosterValue(c.store, c.ref), event, affected,
                                           students, simulators, weather_data)),
              ref |-> c.ref ]
       ELSE IF event.event_type \in { "AIRCRAFT_UNSERVICEABLE",
                                      "INSTRUCTOR_UNAVAILABLE",
                                      "STUDENT_UNAVAILABLE" }
       THEN [ store |-> FlagObjects(c.store, c.ref, affected, event), ref |-> c.ref ]
       ELSE c

\* date windows of a disruption: none, Monday only, Tuesday to Friday, and
\* only one of the two ends given
EventWindows ==
    { << None, None >>, << Some(1), Some(1) >>, << Some(2), Some(5) >>,
      << Some(2), None >>, << None, Some(1) >> }

\* metadata as the API builds it: {"weather_scenario": x} if x is given, else {}
EventMetadata ==
    { EmptyDict } \cup { [ k \in {"weather_scenario"} |-> sc ] : sc \in Scenarios \cup {"storm"} }

Events ==
    { DisruptionEvent("WEATHER_UPDATE", "None", w[1], w[2], md, "cid") :
        w \in EventWindows, md \in EventMetadata }
    \cup
    { DisruptionEvent(t[1], t[2], w[1], w[2], EmptyDict, "cid") :
        w \in EventWindows,
        t \in { << "AIRCRAFT_UNSERVICEABLE", "A1" >>, << "AIRCRAFT_UNSERVICEABLE", "A9" >>,
                << "AIRCRAFT_UNSERVICEABLE", "SIM1" >>,
                << "INSTRUCTOR_UNAVAILABLE", "I1" >>, << "INSTRUCTOR_UNAVAILABLE", "I2" >>,
                << "STUDENT_UNAVAILABLE", "S1" >>, << "STUDENT_UNAVAILABLE", "S2" >>,
                << "MULTIPLE", "None" >> } }

\* the calls of check_dispatch that are enumerated
DispatchSlot(activity, sortie_type, resource_id) ==
    _make_slot(<< 1, "AM1" >>, T0800, T1000, activity, sortie_type, "S1", "I1",
               resource_id, "GO", << "INSTRUCTOR_CURRENCY_OK", "AIRCRAFT_AVAILABLE" >>,
               << "rules:doc_dispatch#chunk2", "rules:doc_dispatch#chunk3" >>, 1)

DispatchSlots ==
    { DispatchSlot("FLIGHT", "CIRCUITS", "A1"), DispatchSlot("FLIGHT", "SOLO", "A1"),
      DispatchSlot("SIM", "SIM_PROCEDURES", "SIM1") }

PPL4X == << "P", "P", "L", "-", "4", "X" >>
CPL1  == << "C", "P", "L", "-", "1" >>

DispatchStages == { PPL1, PPL4X, CPL1 }

\* for each field: absent, a value worse than every threshold, and values
\* equal to a threshold of the stage table or of SOLO_MINIMA
DispatchReports ==
    { WeatherReport(c, v, w, x, conf) :
        c \in { None, Some(800), Some(1500), Some(3000) },
        v \in { None, Some(50), Some(100) },
        w \in { None, Some(10), Some(25) },
        x \in { None, Some(8), Some(13) },
        conf \in { "live", "cached", "unknown" } }

\* check_dispatch reads the id and max_sessions_per_day of a simulator
Sim(id, max_sessions) == [ id |-> id, max_sessions_per_day |-> max_sessions ]

DispatchSimulators ==
    { << >> } \cup { << Sim("SIM1", m), Sim("SIM2", 1) >> : m \in 0..MaxSessions }

\* counters: empty, SIM1 used on the slot's date, SIM1 used on another date
\* with SIM2 used on the slot's date
DispatchCounters ==
    { EmptyDict }
    \cup { [ s \in {"SIM1"} |-> [ d \in {1} |-> n ] ] : n \in 1..MaxSessions }
    \cup { [ s \in {"SIM1", "SIM2"} |->
               IF s = "SIM1" THEN [ d \in {2} |-> MaxSessions ] ELSE [ d \in {1} |-> 1 ] ] }

DispatchCalls ==
    { [ slot |-> sl, student |-> [ id |-> "S1", stage |-> st ], weather |-> w,
        simulators |-> sims, sim_slots_used |-> used ] :
        sl \in DispatchSlots, st \in DispatchStages, w \in DispatchReports,
        sims \in DispatchSimulators, used \in DispatchCounters }

\* the calls of get_weather that are enumerated: an airfield in upper and in
\* lower case and a second airfield; the fetch raises, or returns a text
VOBG == << "V", "O", "B", "G" >>
VOMM == << "V", "O", "M", "M" >>

Icaos == { VOBG, << "v", "o", "b", "g" >>, VOMM }

FetchOutcomes ==
    { [ raises |-> TRUE, raw |-> "" ] }
    \cup { [ raises |-> FALSE, raw |-> r ] : r \in { METAR_OVC, METAR_DIV } }

\* the roster_versions table: db.add and db.commit append the row; the table
\* itself rejects nothing
Insert(rows, row) == Append(rows, row)

\* the rows .order_by(RosterVersion.version.desc()).first() can return: a row of
\* the week with the largest version (the week of the model is the only one)
LatestRows(rows) ==
    { i \in 1..Len(rows) : \A j \in 1..Len(rows) : rows[j].version <= rows[i].version }

\* main.py 303-327: the roster the request works on and the roster it makes
\* of it.  A roster is kept as the list of the correlation ids of the events
\* applied to the generated roster, in order.
NewRoster(latest_version, correlation_id) ==
    Append(IF latest_version = None THEN << >> ELSE latest_version[1].roster_json,
           correlation_id)

\* main.py 330-345: the row the request stores
NewVersionRow(latest_version, correlation_id) ==
    [ version        |-> IF latest_version = None THEN 1 ELSE latest_version[1].version + 1,
      correlation_id |-> correlation_id,
      roster_json    |-> NewRoster(latest_version, correlation_id) ]

\* the rosters compute_roster_diff is enumerated on: three places
\* (Monday AM1, Monday AM2, Tuesday AM1), each empty or holding the generated
\* FLIGHT slot or one of the slots the engines or an edit make of it
DiffPlaces == << << 1, "AM1", T0800, T1000 >>, << 1, "AM2", T1000, T1200 >>,
                << 2, "AM1", T0800, T1000 >> >>

GeneratedSlot(place) ==
    _make_slot(<< place[1], place[2] >>, place[3], place[4], "FLIGHT", "CIRCUITS",
               "S1", "I1", "A1", "GO",
               << "INSTRUCTOR_CURRENCY_OK", "AIRCRAFT_AVAILABLE" >>,
               << "rules:doc_dispatch#chunk2", "rules:doc_dispatch#chunk3" >>,
               place[1])

\* the slot absent (None), as generated, converted to a simulator, flagged by
\* a disruption, with other reasons and citations only, given to another
\* student and instructor
SlotVariants(place) ==
    LET g == GeneratedSlot(place) IN
    { None,
      Some(g),
      Some([g EXCEPT !.activity = "SIM", !.sortie_type = "SIM_PROCEDURES",
                     !.resource_id = "SIM1", !.dispatch_decision = "NO_GO",
                     !.reasons = << "WX_BELOW_CEILING_MINIMA", "CONVERTED_TO_SIM" >>,
                     !.citations = << CITATIONS.ceiling, CITATIONS.visibility,
                                      CITATIONS.sim_ok >>]),
      Some([g EXCEPT !.dispatch_decision = "NEEDS_REVIEW",
                     !.reasons = << "INSTRUCTOR_UNAVAILABLE_DISRUPTION" >>,
                     !.citations = << "rules:doc_dispatch#disruption" >>]),
      Some([g EXCEPT !.reasons = << "WX_ABOVE_MINIMA" >>,
                     !.citations = << CITATIONS.ceiling, CITATIONS.visibility >>]),
      Some([g EXCEPT !.student_id = "S2", !.instructor_id = "I2"]) }

DiffRosters ==
    { [ roster |-> << [ date |-> 1, slots |-> a \o b ], [ date |-> 2, slots |-> c ] >>,
        unassigned |-> << >> ] :
        a \in SlotVariants(DiffPlaces[1]), b \in SlotVariants(DiffPlaces[2]),
        c \in SlotVariants(DiffPlaces[3]) }

DiffCalls ==
    { [ old_roster |-> o, new_roster |-> n ] : o \in DiffRosters, n \in DiffRosters }

(***************************************************************************)
(* State                                                                   *)
(***************************************************************************)

VARIABLES
    cat,      \* the reference catalogs of the run
    pc,       \* "start" | "generated" | "dispatched" | "reallocated"
              \* | "call" | "returned" | "diff" | "diffed" | "regenerated"
              \* | "avail" | "availed" | "realloc" | "realloc_returned" | "ingest"
    base,     \* the value returned by generate_roster
    weather,  \* the report of the dispatch scan
    roster,   \* the current roster: generated, then dispatched or reallocated
    prev,     \* the roster the last reallocation was given
    event,    \* the event of the last reallocation
    result,   \* the value returned by the last reallocate_roster
    reallocs, \* number of reallocations so far
    cd_args,  \* the arguments of a check_dispatch call
    cd_ret,   \* the value it returned
    objects,  \* the objects of that call: those passed in, then also those built
    diff_args, \* the arguments of a compute_roster_diff call
    diff_ret,  \* the value it returned
    ledger,    \* the BookingState the last generate_roster call left behind
    again,     \* the value returned by a second generate_roster call
    now,       \* datetime.utcnow(), in minutes
    _cache,    \* fetcher._cache: airfield id -> reference of a WeatherReport
    reports,   \* the WeatherReport objects of the process
    got,       \* the get_weather calls made: arguments, reference and report returned
    versions,  \* the rows of roster_versions for the week, in commit order
    requests,  \* the reallocate requests: where each is, and the row it read
    avail_args, \* the arguments of an is_available call
    avail_ret,  \* the value it returned
    heap,       \* the objects of the last reallocate_roster call, after it
    bucket,     \* the files of data/bucket
    db,         \* the committed rows: the reference tables and ingestion_runs
    ingested    \* the last run_ingestion call: arguments, db before, outcome

vars == << cat, pc, base, weather, roster, prev, event, result, reallocs,
           cd_args, cd_ret, objects, diff_args, diff_ret, ledger, again,
           now, _cache, reports, got, versions, requests, avail_args, avail_ret,
           heap, bucket, db, ingested >>

InitRest ==
    /\ base = None
    /\ weather = None
    /\ roster = None
    /\ prev = None
    /\ event = None
    /\ result = None
    /\ reallocs = 0
    /\ cd_ret = None
    /\ diff_ret = None
    /\ ledger = None
    /\ again = None
    /\ now = 0
    /\ _cache = EmptyDict
    /\ reports = << >>
    /\ got = << >>
    /\ versions = << >>
    /\ requests = [ r \in 1..MaxRequests |-> [ at |-> "received", latest_version |-> None ] ]
    /\ avail_ret = None
    /\ heap = None
    /\ ingested = None

\* generation alone, on every catalog
InitGen ==
    /\ cat \in Catalogs
    /\ pc = "start"
    /\ cd_args = None
    /\ objects = None
    /\ diff_args = None
    /\ avail_args = None
    /\ bucket = None
    /\ db = None
    /\ InitRest

\* the pipeline of generation, dispatch scan and reallocation
Init ==
    /\ cat \in PipelineCatalogs
    /\ pc = "start"
    /\ cd_args = None
    /\ objects = None
    /\ diff_args = None
    /\ avail_args = None
    /\ bucket = None
    /\ db = None
    /\ InitRest

\* one call of check_dispatch
InitDispatch ==
    /\ cat = None
    /\ pc = "call"
    /\ cd_args \in DispatchCalls
    /\ objects = InputObjects(cd_args)
    /\ diff_args = None
    /\ avail_args = None
    /\ bucket = None
    /\ db = None
    /\ InitRest

\* one call of compute_roster_diff
InitDiff ==
    /\ cat = None
    /\ pc = "diff"
    /\ cd_args = None
    /\ objects = None
    /\ diff_args \in DiffCalls
    /\ avail_args = None
    /\ bucket = None
    /\ db = None
    /\ InitRest

\* a process that only looks up the weather
InitWeather ==
    /\ cat = None
    /\ pc = "weather"
    /\ cd_args = None
    /\ objects = None
    /\ diff_args = None
    /\ avail_args = None
    /\ bucket = None
    /\ db = None
    /\ InitRest

\* a call of reallocate_roster on a roster as generated or as dispatched
InitObjects ==
    /\ cat \in ObjectCatalogs
    /\ pc = "realloc"
    /\ cd_args = None
    /\ objects = None
    /\ diff_args = None
    /\ avail_args = None
    /\ base = Some(generate_roster(cat))
    /\ weather \in { None } \cup { Some(w) : w \in DispatchWeathers }
    /\ roster = IF weather = None THEN base[1]
                ELSE [base[1] EXCEPT !.roster =
                         DispatchScan(base[1].roster, cat.students, weather[1],
                                      cat.simulators)]
    /\ prev = None
    /\ event = None
    /\ result = None
    /\ reallocs = 0
    /\ cd_ret = None
    /\ diff_ret = None
    /\ ledger = None
    /\ again = None
    /\ now = 0
    /\ _cache = EmptyDict
    /\ reports = << >>
    /\ got = << >>
    /\ versions = << >>
    /\ requests = [ r \in 1..MaxRequests |-> [ at |-> "received", latest_version |-> None ] ]
    /\ avail_ret = None
    /\ bucket = None
    /\ db = None
    /\ heap = None
    /\ ingested = None

\* empty tables and a bucket to ingest
InitIngest ==
    /\ cat = None
    /\ pc = "ingest"
    /\ cd_args = None
    /\ objects = None
    /\ diff_args = None
    /\ avail_args = None
    /\ bucket \in Buckets
    /\ db = [ tables |-> [ name \in { TableNames[k] : k \in 1..Len(TableNames) } |->
                             EmptyDict ],
              ingestion_runs |-> << >> ]
    /\ InitRest

\* a call of is_available
InitAvail ==
    /\ cat = None
    /\ pc = "avail"
    /\ cd_args = None
    /\ objects = None
    /\ diff_args = None
    /\ avail_args \in AvailCalls
    /\ bucket = None
    /\ db = None
    /\ InitRest

\* a server with no roster version stored and MaxRequests requests to come
InitVersions ==
    /\ cat = None
    /\ pc = "serve"
    /\ cd_args = None
    /\ objects = None
    /\ diff_args = None
    /\ avail_args = None
    /\ bucket = None
    /\ db = None
    /\ InitRest

\* a call of generate_roster on the catalogs (test_roster.py 22-30, main.py 83-91)
GenerateRoster ==
    /\ pc = "start"
    /\ LET r == GenerateCall(cat, ledger) IN
         /\ base' = r.ret
         /\ ledger' = Some(r.state)
    /\ roster' = base'
    /\ pc' = "generated"
    /\ UNCHANGED << bucket, db, ingested, heap, avail_args, avail_ret, cat, weather, prev, event, result, reallocs, cd_args, cd_ret,
                    objects, diff_args, diff_ret, again,
                    now, _cache, reports, got, versions, requests >>

\* a second call of generate_roster with the same arguments, in the same
\* process (roster_generate and roster_reallocate both call it, main.py 83, 307)
GenerateAgain ==
    /\ pc = "generated"
    /\ LET r == GenerateCall(cat, ledger) IN
         /\ again' = r.ret
         /\ ledger' = Some(r.state)
    /\ pc' = "regenerated"
    /\ UNCHANGED << bucket, db, ingested, heap, avail_args, avail_ret, cat, base, weather, roster, prev, event, result, reallocs, cd_args,
                    cd_ret, objects, diff_args, diff_ret,
                    now, _cache, reports, got, versions, requests >>

\* the dispatch scan of the generated roster (main.py 93-118, test_dispatch.py 41-57)
Dispatch ==
    /\ pc = "generated"
    /\ \E w \in DispatchWeathers :
         /\ weather' = w
         /\ roster' = [base EXCEPT !.roster =
                          DispatchScan(base.roster, cat.students, w, cat.simulators)]
    /\ pc' = "dispatched"
    /\ UNCHANGED << bucket, db, ingested, heap, avail_args, avail_ret, cat, base, prev, event, result, reallocs, cd_args, cd_ret,
                    objects, diff_args, diff_ret, ledger, again,
                    now, _cache, reports, got, versions, requests >>

\* a disruption applied to the current roster (main.py 295-333)
Reallocate ==
    /\ pc \in { "generated", "dispatched", "reallocated" }
    /\ reallocs < MaxReallocs
    /\ \E ev \in Events :
         /\ event' = ev
         /\ result' = reallocate_roster(roster, ev, cat.students, cat.simulators, None)
         /\ roster' = result'.new_roster
    /\ prev' = roster
    /\ reallocs' = reallocs + 1
    /\ pc' = "reallocated"
    /\ UNCHANGED << bucket, db, ingested, heap, avail_args, avail_ret, cat, base, weather, cd_args, cd_ret, objects, diff_args,
                    diff_ret, ledger, again,
                    now, _cache, reports, got, versions, requests >>

\* a call of check_dispatch
CheckDispatch ==
    /\ pc = "call"
    /\ LET r == check_dispatch_objects(objects, cd_args.weather) IN
         /\ objects' = r.store
         /\ cd_ret' = SlotAt(r.store, r.ref)
    /\ pc' = "returned"
    /\ UNCHANGED << bucket, db, ingested, heap, avail_args, avail_ret, cat, base, weather, roster, prev, event, result, reallocs, cd_args,
                    diff_args, diff_ret, ledger, again,
                    now, _cache, reports, got, versions, requests >>

\* a call of compute_roster_diff
ComputeDiff ==
    /\ pc = "diff"
    /\ diff_ret' = compute_roster_diff(diff_args.old_roster, diff_args.new_roster)
    /\ pc' = "diffed"
    /\ UNCHANGED << bucket, db, ingested, heap, avail_args, avail_ret, cat, base, weather, roster, prev, event, result, reallocs, cd_args,
                    cd_ret, objects, diff_args, ledger, again,
                    now, _cache, reports, got, versions, requests >>

\* a call of get_weather (main.py 97, 156); the entry of the cache before the
\* call and the report as it is returned are kept with the call
GetWeather ==
    /\ pc = "weather"
    /\ Len(got) < MaxCalls
    /\ \E icao \in Icaos, fetch \in FetchOutcomes :
         LET r == get_weather(_cache, reports, now, icao, fetch) IN
         /\ _cache' = r.cache
         /\ reports' = r.reports
         /\ got' = Append(got, [ icao    |-> icao,
                                 at      |-> now,
                                 entry   |-> IF Upper(icao) \in DOMAIN _cache
                                             THEN Some(_cache[Upper(icao)]) ELSE None,
                                 fetch   |-> IF r.fetched THEN Some(fetch) ELSE None,
                                 ref     |-> r.ref,
                                 report  |-> r.reports[r.ref] ])
    /\ UNCHANGED << bucket, db, ingested, heap, avail_args, avail_ret, cat, pc, base, weather, roster, prev, event, result, reallocs, cd_args,
                    cd_ret, objects, diff_args, diff_ret, ledger, again, now,
                    versions, requests >>

\* time passes: 29 minutes, then minute by minute
Tick ==
    /\ pc = "weather"
    /\ now < MaxNow
    /\ now' = IF now = 0 THEN 29 ELSE now + 1
    /\ UNCHANGED << bucket, db, ingested, heap, avail_args, avail_ret, cat, pc, base, weather, roster, prev, event, result, reallocs, cd_args,
                    cd_ret, objects, diff_args, diff_ret, ledger, again,
                    _cache, reports, got, versions, requests >>

\* roster_reallocate, main.py 296-301: the request reads the latest version of
\* the week in its own session
ReadLatest(r) ==
    /\ pc = "serve"
    /\ requests[r].at = "received"
    /\ \E latest_version \in IF versions = << >> THEN { None }
                             ELSE { Some(versions[i]) : i \in LatestRows(versions) } :
         requests' = [requests EXCEPT ![r] = [ at |-> "read",
                                               latest_version |-> latest_version ]]
    /\ UNCHANGED << bucket, db, ingested, heap, avail_args, avail_ret, cat, pc, base, weather, roster, prev, event, result, reallocs, cd_args,
                    cd_ret, objects, diff_args, diff_ret, ledger, again,
                    now, _cache, reports, got, versions >>

\* roster_reallocate, main.py 303-358: the request reallocates the roster it
\* read and commits the result as version + 1; r is its correlation id
CommitVersion(r) ==
    /\ pc = "serve"
    /\ requests[r].at = "read"
    /\ versions' = Insert(versions, NewVersionRow(requests[r].latest_version, r))
    /\ requests' = [requests EXCEPT ![r].at = "committed"]
    /\ UNCHANGED << bucket, db, ingested, heap, avail_args, avail_ret, cat, pc, base, weather, roster, prev, event, result, reallocs, cd_args,
                    cd_ret, objects, diff_args, diff_ret, ledger, again,
                    now, _cache, reports, got >>

\* a call of reallocate_roster, followed on the objects it works on
\* (main.py 319-328)
ReallocateObjects ==
    /\ pc = "realloc"
    /\ \E ev \in Events :
         /\ event' = ev
         /\ result' = reallocate_roster(roster, ev, cat.students, cat.simulators, None)
         /\ heap' = reallocate_roster_objects(RosterObjects(roster, "in"), ev,
                                               cat.students, cat.simulators, None)
    /\ pc' = "realloc_returned"
    /\ UNCHANGED << bucket, db, ingested, avail_args, avail_ret, cat, base, weather, roster, prev, reallocs,
                    cd_args, cd_ret, objects, diff_args, diff_ret, ledger, again,
                    now, _cache, reports, got, versions, requests >>

\* a call of run_ingestion (job.py 200-248)
RunIngestion ==
    /\ pc = "ingest"
    /\ Len(db.ingestion_runs) < MaxRuns
    /\ \E force \in BOOLEAN, fail_at \in FailPoints :
         LET r == run_ingestion(db, bucket, force, fail_at) IN
         /\ db' = r.db
         /\ ingested' = Some([ force |-> force, files |-> bucket, before |-> db,
                               status |-> r.status ])
    /\ UNCHANGED << bucket, heap, avail_args, avail_ret, cat, pc, base, weather, roster,
                    prev, event, result, reallocs, cd_args, cd_ret, objects, diff_args,
                    diff_ret, ledger, again, now, _cache, reports, got, versions,
                    requests >>

\* the files of the bucket are replaced
ChangeBucket ==
    /\ pc = "ingest"
    /\ bucket' \in Buckets \ { bucket }
    /\ UNCHANGED << db, ingested, heap, avail_args, avail_ret, cat, pc, base, weather,
                    roster, prev, event, result, reallocs, cd_args, cd_ret, objects,
                    diff_args, diff_ret, ledger, again, now, _cache, reports, got,
                    versions, requests >>

\* a call of is_available (roster.py 53, 143, 159, 175, 188)
IsAvailable ==
    /\ pc = "avail"
    /\ avail_ret' = Some(is_available(avail_args.entity_availability, avail_args.day_name,
                                      avail_args.slot_start, avail_args.slot_end))
    /\ pc' = "availed"
    /\ UNCHANGED << bucket, db, ingested, heap, avail_args, cat, base, weather, roster, prev, event, result, reallocs,
                    cd_args, cd_ret, objects, diff_args, diff_ret, ledger, again,
                    now, _cache, reports, got, versions, requests >>

Next == GenerateRoster \/ Dispatch \/ Reallocate

Spec == Init /\ [][Next]_vars

SpecGen == InitGen /\ [][GenerateRoster \/ GenerateAgain]_vars

SpecDispatch == InitDispatch /\ [][CheckDispatch]_vars

SpecDiff == InitDiff /\ [][ComputeDiff]_vars

SpecWeather == InitWeather /\ [][GetWeather \/ Tick]_vars

SpecAvail == InitAvail /\ [][IsAvailable]_vars

SpecIngest == InitIngest /\ [][RunIngestion \/ ChangeBucket]_vars

SpecObjects == InitObjects /\ [][ReallocateObjects]_vars

SpecVersions ==
    InitVersions
    /\ [][\E r \in 1..MaxRequests : ReadLatest(r) \/ CommitVersion(r)]_vars

(***************************************************************************)
(* Properties of the roster returned by generate_roster                    *)
(***************************************************************************)

BaseSlots == IF base = None THEN << >> ELSE FlattenDays(base.roster)

EntityIds(slot) == { slot.student_id, slot.instructor_id, slot.resource_id }

\* the half-open windows [start, end) of two slots share an instant
WindowsOverlap(a, b) ==
    /\ parse_time(a.start) < parse_time(b.end)
    /\ parse_time(b.start) < parse_time(a.end)
    /\ parse_time(a.start) < parse_time(a.end)
    /\ parse_time(b.start) < parse_time(b.end)

NoDoubleBooking(slots) ==
    \A i \in 1..Len(slots) : \A j \in (i + 1)..Len(slots) :
        (slots[i].date = slots[j].date
            /\ EntityIds(slots[i]) \cap EntityIds(slots[j]) /= {})
        => /\ ~WindowsOverlap(slots[i], slots[j])
           /\ slots[i].start /= slots[j].start

\* C1: in a roster returned by generate_roster no entity id is in two slots of
\* one date whose [start, end) windows overlap, nor twice with the same
\* (date, start).
C1_GeneratedNoDoubleBooking ==
    pc = "generated" => NoDoubleBooking(BaseSlots)

\* number of slots of one student
StudentSlots(slots, student_id) ==
    Cardinality({ i \in 1..Len(slots) : slots[i].student_id = student_id })

\* C2: in a roster returned by generate_roster every student holds at most
\* required_sorties_per_week slots over the week.
C2_WeeklyCap ==
    pc = "generated" =>
        \A i \in 1..Len(cat.students) :
            StudentSlots(BaseSlots, cat.students[i].id)
                <= cat.students[i].required_sorties_per_week

\* a student assigned exactly the weekly requirement, next to one who requires
\* nothing, on a week that offers more slots than were taken
C2_Witness ==
    /\ pc = "generated"
    /\ \E i \in 1..Len(cat.students) :
         /\ cat.students[i].required_sorties_per_week >= 1
         /\ StudentSlots(BaseSlots, cat.students[i].id)
                = cat.students[i].required_sorties_per_week
    /\ \E i \in 1..Len(cat.students) :
         cat.students[i].required_sorties_per_week = 0
    /\ Len(BaseSlots) < 5 * Len(cat.time_slots)

RECURSIVE DutyMinutes(_, _, _)
DutyMinutes(slots, instructor_id, date) ==
    IF slots = <<>> THEN 0
    ELSE (IF slots[1].instructor_id = instructor_id /\ slots[1].date = date
          THEN parse_time(slots[1].end) - parse_time(slots[1].start) + 60
          ELSE 0)
         + DutyMinutes(Tail(slots), instructor_id, date)

\* C3: in a roster returned by generate_roster, for every instructor and date,
\* the sum over the instructor's slots (FLIGHT and SIM) of duration + 1 hour is
\* at most max_duty_hours_per_day.
C3_DutyCap ==
    pc = "generated" =>
        \A i \in 1..Len(cat.instructors) : \A d \in 1..5 :
            DutyMinutes(BaseSlots, cat.instructors[i].id, d)
                <= 60 * cat.instructors[i].max_duty_hours_per_day

\* an instructor whose day is filled to the cap, and an instructor who holds a
\* FLIGHT and a SIM slot on one date
C3_Witness ==
    /\ pc = "generated"
    /\ \E i \in 1..Len(cat.instructors) : \E d \in 1..5 :
         DutyMinutes(BaseSlots, cat.instructors[i].id, d)
             = 60 * cat.instructors[i].max_duty_hours_per_day
    /\ \E a \in 1..Len(BaseSlots) : \E b \in 1..Len(BaseSlots) :
         /\ BaseSlots[a].instructor_id = BaseSlots[b].instructor_id
         /\ BaseSlots[a].date = BaseSlots[b].date
         /\ BaseSlots[a].activity = "FLIGHT"
         /\ BaseSlots[b].activity = "SIM"

\* slots of one activity on one resource on one date
ResourceSlots(slots, activity, resource_id, d) ==
    Cardinality({ i \in 1..Len(slots) :
                    /\ slots[i].activity = activity
                    /\ slots[i].resource_id = resource_id
                    /\ slots[i].date = d })

\* C4: in a roster returned by generate_roster each aircraft is the resource of
\* at most 2 FLIGHT slots per date and each simulator of at most
\* max_sessions_per_day SIM slots per date.
C4_ResourceCaps ==
    pc = "generated" =>
        \A d \in 1..5 :
            /\ \A i \in 1..Len(cat.aircraft) :
                 ResourceSlots(BaseSlots, "FLIGHT", cat.aircraft[i].id, d) <= 2
            /\ \A i \in 1..Len(cat.simulators) :
                 ResourceSlots(BaseSlots, "SIM", cat.simulators[i].id, d)
                     <= cat.simulators[i].max_sessions_per_day

\* a date on which an aircraft flies its two sorties and a third assignment
\* went to a simulator that is thereby full
C4_Witness ==
    /\ pc = "generated"
    /\ \E d \in 1..5 :
         /\ \E i \in 1..Len(cat.aircraft) :
              ResourceSlots(BaseSlots, "FLIGHT", cat.aircraft[i].id, d) = 2
         /\ \E i \in 1..Len(cat.simulators) :
              /\ cat.simulators[i].max_sessions_per_day >= 1
              /\ ResourceSlots(BaseSlots, "SIM", cat.simulators[i].id, d)
                     = cat.simulators[i].max_sessions_per_day

(***************************************************************************)
(* Properties of the dispatch scan and of reallocate_roster                *)
(***************************************************************************)

RosterSlots == IF roster = None THEN << >> ELSE FlattenDays(roster.roster)

PrevSlots == IF prev = None THEN << >> ELSE FlattenDays(prev.roster)

SimCapHolds(slots) ==
    \A i \in 1..Len(cat.simulators) : \A d \in 1..5 :
        ResourceSlots(slots, "SIM", cat.simulators[i].id, d)
            <= cat.simulators[i].max_sessions_per_day

\* C5: after the dispatch scan or a WEATHER_UPDATE reallocation every
\* simulator has at most max_sessions_per_day SIM slots on each date of the
\* resulting roster, the SIM slots already there and the converted ones
\* counted together.
C5_SimCapAfterWeather ==
    (\/ pc = "dispatched"
     \/ pc = "reallocated" /\ event.event_type = "WEATHER_UPDATE")
    => SimCapHolds(RosterSlots)

\* a WEATHER_UPDATE reallocation of a roster within the cap that converted a
\* FLIGHT slot to a simulator
C5_Witness ==
    /\ pc = "reallocated"
    /\ event.event_type = "WEATHER_UPDATE"
    /\ SimCapHolds(PrevSlots)
    /\ \E i \in 1..Len(RosterSlots) :
         /\ PrevSlots[i].activity = "FLIGHT"
         /\ RosterSlots[i].activity = "SIM"

\* no entity id is in two slots of one date whose [start, end) windows overlap
NoOverlapBooking(slots) ==
    \A i \in 1..Len(slots) : \A j \in (i + 1)..Len(slots) :
        (slots[i].date = slots[j].date
            /\ EntityIds(slots[i]) \cap EntityIds(slots[j]) /= {})
        => ~WindowsOverlap(slots[i], slots[j])

\* C6: if the current roster has no entity in two time-overlapping slots of
\* one date, neither has the new roster returned by reallocate_roster, for
\* every event type.
C6_ReallocNoDoubleBooking ==
    (pc = "reallocated" /\ NoOverlapBooking(PrevSlots))
    => NoOverlapBooking(RosterSlots)

\* a reallocation of a roster free of overlaps that converted a FLIGHT slot to
\* a simulator
C6_Witness ==
    /\ pc = "reallocated"
    /\ NoOverlapBooking(PrevSlots)
    /\ \E i \in 1..Len(RosterSlots) :
         /\ PrevSlots[i].activity = "FLIGHT"
         /\ RosterSlots[i].activity = "SIM"
         /\ RosterSlots[i].resource_id /= PrevSlots[i].resource_id

(***************************************************************************)
(* Properties of check_dispatch                                            *)
(***************************************************************************)

\* the minima check_dispatch applies to a slot of a student
ApplicableMinima(slot, student) ==
    IF slot.sortie_type = "SOLO" THEN SOLO_MINIMA ELSE _get_stage_minima(student.stage)

\* every present field is at or better than the minima
AtOrBetter(w, minima) ==
    /\ w.ceiling_ft /= None => w.ceiling_ft[1] >= minima.ceiling_ft
    /\ w.visibility_sm /= None => w.visibility_sm[1] >= minima.visibility_sm
    /\ w.wind_kt /= None => w.wind_kt[1] <= minima.wind_kt
    /\ w.crosswind_kt /= None => w.crosswind_kt[1] <= minima.crosswind_kt

\* the violation codes in the order ceiling, visibility, wind, crosswind
ViolationCodes(w, minima) ==
    LET code(present, name) == IF present THEN << name >> ELSE << >> IN
    code(w.ceiling_ft /= None /\ ~(w.ceiling_ft[1] >= minima.ceiling_ft),
         "WX_BELOW_CEILING_MINIMA")
    \o code(w.visibility_sm /= None /\ ~(w.visibility_sm[1] >= minima.visibility_sm),
            "WX_BELOW_VIS_MINIMA")
    \o code(w.wind_kt /= None /\ ~(w.wind_kt[1] <= minima.wind_kt),
            "WX_WIND_EXCEEDED")
    \o code(w.crosswind_kt /= None /\ ~(w.crosswind_kt[1] <= minima.crosswind_kt),
            "WX_CROSSWIND_EXCEEDED")

C9_AboveMinimaGo ==
    (/\ pc = "returned"
     /\ cd_args.slot.activity = "FLIGHT"
     /\ cd_args.weather.confidence /= "unknown"
     /\ AtOrBetter(cd_args.weather, ApplicableMinima(cd_args.slot, cd_args.student)))
    => /\ cd_ret.dispatch_decision = "GO"
       /\ cd_ret.reasons = << "WX_ABOVE_MINIMA" >>
       /\ cd_ret.activity = "FLIGHT"
       /\ cd_ret.resource_id = cd_args.slot.resource_id

\* a FLIGHT slot whose report has a field equal to its threshold and a field
\* absent: GO
C9_Witness ==
    /\ pc = "returned"
    /\ cd_args.slot.activity = "FLIGHT"
    /\ cd_args.weather.confidence /= "unknown"
    /\ LET minima == ApplicableMinima(cd_args.slot, cd_args.student) IN
         /\ cd_args.weather.ceiling_ft = Some(minima.ceiling_ft)
         /\ cd_args.weather.wind_kt = Some(minima.wind_kt)
         /\ cd_args.weather.visibility_sm = None
    /\ cd_ret.dispatch_decision = "GO"
    /\ cd_ret.activity = "FLIGHT"

\* the simulator has room on the date of the slot
HasRoom(sim, used, d) ==
    Get(Get(used, sim.id, EmptyDict), d, 0) < sim.max_sessions_per_day

\* C10: a FLIGHT slot with at least one violation of the minima, some
\* simulator below its cap on the slot's date: the slot is converted to the
\* first such simulator in input order (activity SIM, sortie_type
\* SIM_PROCEDURES, resource_id the simulator, NO_GO, reasons the violation codes
\* in the order ceiling, visibility, wind, crosswind, then CONVERTED_TO_SIM);
\* slot_id, date, times, student_id and instructor_id are unchanged.
C10_ConvertedToFirstSim ==
    (/\ pc = "returned"
     /\ cd_args.slot.activity = "FLIGHT"
     /\ cd_args.weather.confidence /= "unknown"
     /\ ~AtOrBetter(cd_args.weather, ApplicableMinima(cd_args.slot, cd_args.student)))
    => \A i \in 1..Len(cd_args.simulators) :
         (/\ HasRoom(cd_args.simulators[i], cd_args.sim_slots_used, cd_args.slot.date)
          /\ \A j \in 1..(i - 1) :
               ~HasRoom(cd_args.simulators[j], cd_args.sim_slots_used,
                        cd_args.slot.date))
         => /\ cd_ret.activity = "SIM"
            /\ cd_ret.sortie_type = "SIM_PROCEDURES"
            /\ cd_ret.resource_id = cd_args.simulators[i].id
            /\ cd_ret.dispatch_decision = "NO_GO"
            /\ cd_ret.reasons =
                 ViolationCodes(cd_args.weather,
                                ApplicableMinima(cd_args.slot, cd_args.student))
                 \o << "CONVERTED_TO_SIM" >>
            /\ cd_ret.slot_id = cd_args.slot.slot_id
            /\ cd_ret.date = cd_args.slot.date
            /\ cd_ret.start = cd_args.slot.start
            /\ cd_ret.end = cd_args.slot.end
            /\ cd_ret.student_id = cd_args.slot.student_id
            /\ cd_ret.instructor_id = cd_args.slot.instructor_id

\* a FLIGHT slot with all four violations, the first simulator at its cap and
\* the second with room: converted to the second
C10_Witness ==
    /\ pc = "returned"
    /\ cd_args.slot.activity = "FLIGHT"
    /\ cd_args.weather.confidence /= "unknown"
    /\ Len(cd_args.simulators) = 2
    /\ ~HasRoom(cd_args.simulators[1], cd_args.sim_slots_used, cd_args.slot.date)
    /\ cd_args.simulators[1].max_sessions_per_day >= 1
    /\ HasRoom(cd_args.simulators[2], cd_args.sim_slots_used, cd_args.slot.date)
    /\ cd_ret.resource_id = cd_args.simulators[2].id
    /\ cd_ret.reasons = << "WX_BELOW_CEILING_MINIMA", "WX_BELOW_VIS_MINIMA",
                           "WX_WIND_EXCEEDED", "WX_CROSSWIND_EXCEEDED",
                           "CONVERTED_TO_SIM" >>

\* C11: a FLIGHT slot with at least one violation of the minima, every
\* simulator's count for the slot's date at or above its max_sessions_per_day
\* (or no simulators at all): NO_GO with reasons the violation codes followed
\* by NO_SIM_AVAILABLE, and the slot keeps activity FLIGHT, its sortie_type and
\* its aircraft.
C11_NoSimNoGo ==
    (/\ pc = "returned"
     /\ cd_args.slot.activity = "FLIGHT"
     /\ cd_args.weather.confidence /= "unknown"
     /\ ~AtOrBetter(cd_args.weather, ApplicableMinima(cd_args.slot, cd_args.student))
     /\ \A i \in 1..Len(cd_args.simulators) :
          Get(Get(cd_args.sim_slots_used, cd_args.simulators[i].id, EmptyDict),
              cd_args.slot.date, 0)
              >= cd_args.simulators[i].max_sessions_per_day)
    => /\ cd_ret.dispatch_decision = "NO_GO"
       /\ cd_ret.reasons =
            ViolationCodes(cd_args.weather,
                           ApplicableMinima(cd_args.slot, cd_args.student))
            \o << "NO_SIM_AVAILABLE" >>
       /\ cd_ret.activity = "FLIGHT"
       /\ cd_ret.sortie_type = cd_args.slot.sortie_type
       /\ cd_ret.resource_id = cd_args.slot.resource_id

\* a FLIGHT slot below the ceiling minima only, two simulators of which one is
\* used exactly up to a cap of at least one: NO_GO, not converted
C11_Witness ==
    /\ pc = "returned"
    /\ cd_args.slot.activity = "FLIGHT"
    /\ cd_args.weather.confidence /= "unknown"
    /\ Len(cd_args.simulators) = 2
    /\ \A i \in 1..2 :
         ~HasRoom(cd_args.simulators[i], cd_args.sim_slots_used, cd_args.slot.date)
    /\ \E i \in 1..2 :
         /\ cd_args.simulators[i].max_sessions_per_day >= 1
         /\ Get(Get(cd_args.sim_slots_used, cd_args.simulators[i].id, EmptyDict),
                cd_args.slot.date, 0) = cd_args.simulators[i].max_sessions_per_day
    /\ cd_ret.dispatch_decision = "NO_GO"
    /\ cd_ret.reasons = << "WX_BELOW_CEILING_MINIMA", "NO_SIM_AVAILABLE" >>
    /\ cd_ret.resource_id = "A1"

\* C12: check_dispatch never changes its inputs: after any call the slot dict
\* it was given, the reasons and citations lists of that dict, the student, the
\* list of simulators and the sim_slots_used counter are as before the call.
C12_InputsUnchanged ==
    pc = "returned" =>
        \A ref \in DOMAIN InputObjects(cd_args) :
            objects[ref] = InputObjects(cd_args)[ref]

\* a call that converted the slot: the dict returned differs from the one
\* given in all six fields the code assigns, and is another object
C12_Witness ==
    /\ pc = "returned"
    /\ cd_ret.activity = "SIM"
    /\ cd_args.slot.activity = "FLIGHT"
    /\ cd_ret.resource_id /= cd_args.slot.resource_id
    /\ cd_ret.reasons /= cd_args.slot.reasons
    /\ cd_ret.citations /= cd_args.slot.citations
    /\ SlotAt(objects, SlotRef) = cd_args.slot
    /\ objects[SimSlotsUsedRef] = cd_args.sim_slots_used
    /\ objects[SimSlotsUsedRef] /= EmptyDict

(***************************************************************************)
(* Properties of reallocate_roster, by event type                          *)
(***************************************************************************)

\* the report a WEATHER_UPDATE event stands for when no weather_data is passed
EventWeather(ev) ==
    get_weather_mock(Get(ev.metadata, "weather_scenario", "good"))

\* C13: a roster dispatched under a report W (every slot through
\* check_dispatch with a run-scoped counter), then given to reallocate_roster
\* with a WEATHER_UPDATE event carrying the same W: diff.total_changes = 0 and
\* churn_rate = 0.
C13_SameWeatherNoChange ==
    (/\ pc = "reallocated"
     /\ weather /= None
     /\ event.event_type = "WEATHER_UPDATE"
     /\ EventWeather(event) = weather)
    => /\ result.diff.total_changes = 0
       /\ result.churn_rate.num = 0

\* a dispatch scan that converted a FLIGHT slot, followed by a WEATHER_UPDATE
\* with the same report that changed nothing
C13_Witness ==
    /\ pc = "reallocated"
    /\ weather /= None
    /\ event.event_type = "WEATHER_UPDATE"
    /\ EventWeather(event) = weather
    /\ \E i \in 1..Len(BaseSlots) :
         BaseSlots[i].activity = "FLIGHT" /\ PrevSlots[i].activity = "SIM"
    /\ result.diff.total_changes = 0

\* a counter kept as (simulator, date) -> count, in the shape check_dispatch reads
AsCounter(count) ==
    [ sim \in { p[1] : p \in DOMAIN count } |->
        [ d \in { p[2] : p \in { q \in DOMAIN count : q[1] = sim } } |->
            count[<< sim, d >>] ] ]

\* the slots of a roster from the k-th on, each FLIGHT slot replaced by the
\* result of check_dispatch under w and the counter so far, the counter
\* incremented for (simulator, date) after each result that is SIM
RECURSIVE Redispatched(_, _, _, _, _, _)
Redispatched(slots, k, count, students, w, simulators) ==
    IF k > Len(slots) THEN << >>
    ELSE IF slots[k].activity /= "FLIGHT"
    THEN << slots[k] >> \o Redispatched(slots, k + 1, count, students, w, simulators)
    ELSE With(check_dispatch(slots[k], StudentById(students, slots[k].student_id),
                             w, simulators, AsCounter(count)),
              LAMBDA u :
         With(IF u.activity = "SIM"
              THEN Put(count, << u.resource_id, slots[k].date >>,
                       Get(count, << u.resource_id, slots[k].date >>, 0) + 1)
              ELSE count,
              LAMBDA counted :
                 << u >> \o Redispatched(slots, k + 1, counted, students, w, simulators)))

FlagEventTypes ==
    { "AIRCRAFT_UNSERVICEABLE", "INSTRUCTOR_UNAVAILABLE", "STUDENT_UNAVAILABLE" }

\* the slot is one of the affected slots returned
IsReturnedAffected(slot) ==
    \E a \in 1..Len(result.affected_slots) : result.affected_slots[a] = slot

\* the slot as the claim expects it after a disruption of the given type
Flagged(slot, event_type) ==
    [slot EXCEPT
       !.dispatch_decision = "NEEDS_REVIEW",
       !.reasons =
          IF event_type = "AIRCRAFT_UNSERVICEABLE"
          THEN << "AIRCRAFT_UNSERVICEABLE_DISRUPTION" >>
          ELSE IF event_type = "INSTRUCTOR_UNAVAILABLE"
          THEN << "INSTRUCTOR_UNAVAILABLE_DISRUPTION" >>
          ELSE << "STUDENT_UNAVAILABLE_DISRUPTION" >>,
       !.citations = << "rules:doc_dispatch#disruption" >>]

InWindow(slot, ev) ==
    (ev.from_time /= None /\ ev.to_time /= None)
    => (ev.from_time[1] <= slot.date /\ slot.date <= ev.to_time[1])

\* the slot matches the type of the event
MatchesEvent(slot, ev) ==
    \/ ev.event_type = "WEATHER_UPDATE" /\ slot.activity = "FLIGHT"
    \/ /\ ev.event_type = "AIRCRAFT_UNSERVICEABLE"
       /\ slot.activity = "FLIGHT"
       /\ slot.resource_id = ev.entity_id
    \/ ev.event_type = "INSTRUCTOR_UNAVAILABLE" /\ slot.instructor_id = ev.entity_id
    \/ ev.event_type = "STUDENT_UNAVAILABLE" /\ slot.student_id = ev.entity_id

\* C16: identify_affected_slots returns exactly the slots of the roster, in
\* roster order, whose date lies in the inclusive window
\* [from_time.date, to_time.date] when a window is given (all dates otherwise)
\* and that match the event type: FLIGHT slots for WEATHER_UPDATE, FLIGHT slots
\* on the aircraft for AIRCRAFT_UNSERVICEABLE (never SIM slots), slots of the
\* instructor or of the student for INSTRUCTOR_UNAVAILABLE and
\* STUDENT_UNAVAILABLE.
C16_AffectedExactly ==
    (/\ pc = "reallocated"
     /\ event.event_type \in FlagEventTypes \cup { "WEATHER_UPDATE" })
    => result.affected_slots
         = SelectSeq(PrevSlots,
                     LAMBDA slot : InWindow(slot, event) /\ MatchesEvent(slot, event))

\* a STUDENT_UNAVAILABLE event with the window Monday..Monday on a roster where
\* the student has a slot on Monday and one on Tuesday: the Monday slot alone
\* is returned
C16_Witness ==
    /\ pc = "reallocated"
    /\ event.event_type = "STUDENT_UNAVAILABLE"
    /\ event.from_time = Some(1) /\ event.to_time = Some(1)
    /\ \E i, j \in 1..Len(PrevSlots) :
         /\ PrevSlots[i].student_id = event.entity_id /\ PrevSlots[i].date = 1
         /\ PrevSlots[j].student_id = event.entity_id /\ PrevSlots[j].date = 2
         /\ result.affected_slots = << PrevSlots[i] >>

\* C17: for an AIRCRAFT_UNSERVICEABLE event whose entity_id is the resource of
\* no slot of the current roster, reallocate_roster returns affected_slots = [],
\* diff.total_changes = 0, churn_rate = 0 and a new roster equal to the current
\* one.
C17_UnusedAircraftNoChange ==
    (/\ pc = "reallocated"
     /\ event.event_type = "AIRCRAFT_UNSERVICEABLE"
     /\ \A i \in 1..Len(PrevSlots) : PrevSlots[i].resource_id /= event.entity_id)
    => /\ result.affected_slots = << >>
       /\ result.diff.total_changes = 0
       /\ result.churn_rate.num = 0
       /\ result.new_roster = prev

\* an AIRCRAFT_UNSERVICEABLE event without a window, for an aircraft that flies
\* nothing, on a roster that has FLIGHT slots on another aircraft
C17_Witness ==
    /\ pc = "reallocated"
    /\ event.event_type = "AIRCRAFT_UNSERVICEABLE"
    /\ event.from_time = None /\ event.to_time = None
    /\ \A i \in 1..Len(PrevSlots) : PrevSlots[i].resource_id /= event.entity_id
    /\ \E i \in 1..Len(PrevSlots) : PrevSlots[i].activity = "FLIGHT"
    /\ result.affected_slots = << >>
    /\ result.new_roster = prev

\* the value is the dict reallocate_roster returns on its normal path
IsReallocationResult(r) ==
    DOMAIN r = { "new_roster", "diff", "affected_slots", "churn_rate",
                 "correlation_id", "event_type" }

\* C18: a disruption event whose event_type is not one of WEATHER_UPDATE,
\* AIRCRAFT_UNSERVICEABLE, INSTRUCTOR_UNAVAILABLE, STUDENT_UNAVAILABLE is
\* rejected (an error outcome): the engine does not return a result with zero
\* affected slots and zero changes for it.
C18_UnknownEventRejected ==
    (/\ pc = "reallocated"
     /\ event.event_type \notin FlagEventTypes \cup { "WEATHER_UPDATE" })
    => ~(/\ IsReallocationResult(result)
         /\ result.affected_slots = << >>
         /\ result.diff.total_changes = 0)

\* an event of an unknown type applied to a roster that has slots
C18_Witness ==
    /\ pc = "reallocated"
    /\ event.event_type = "MULTIPLE"
    /\ PrevSlots /= << >>
    /\ result.event_type = "MULTIPLE"
    /\ result.new_roster = prev

(***************************************************************************)
(* Properties of compute_roster_diff                                       *)
(***************************************************************************)

\* C19: the diff laws: total_changes = |added| + |removed| + |modified| for any
\* two rosters, and diff(R, R) has added, removed and modified empty and
\* total_changes = 0.
C19_DiffLaws ==
    pc = "diffed" =>
        /\ diff_ret.total_changes
             = Len(diff_ret.added) + Len(diff_ret.removed)
               + Cardinality(diff_ret.modified)
        /\ diff_args.old_roster = diff_args.new_roster
           => /\ diff_ret.added = << >>
              /\ diff_ret.removed = << >>
              /\ diff_ret.modified = {}
              /\ diff_ret.total_changes = 0

\* the diff of a roster of three slots, one of them converted to a simulator,
\* with itself: nothing added, removed or modified
C19_Witness ==
    /\ pc = "diffed"
    /\ diff_args.old_roster = diff_args.new_roster
    /\ Len(FlattenDays(diff_args.old_roster.roster)) = 3
    /\ \E i \in 1..3 : FlattenDays(diff_args.old_roster.roster)[i].activity = "SIM"
    /\ diff_ret.total_changes = 0
    /\ diff_ret.modified = {}

\* the slot ids of a roster, and the slot of an id
SlotIds(r) == { FlattenDays(r.roster)[i].slot_id : i \in 1..Len(FlattenDays(r.roster)) }

SlotOf(r, sid) ==
    LET slots == FlattenDays(r.roster) IN
    slots[CHOOSE i \in 1..Len(slots) : slots[i].slot_id = sid]

ComparedFields ==
    { "activity", "student_id", "instructor_id", "resource_id", "sortie_type",
      "dispatch_decision" }

\* the compared fields on which the two slots of an id differ
Differing(old, new, sid) ==
    { k \in ComparedFields : SlotOf(old, sid)[k] /= SlotOf(new, sid)[k] }

\* C20: compute_roster_diff classifies by slot_id: the slots whose id is only
\* in the new roster are added, those whose id is only in the old roster are
\* removed, and an id in both is in modified if and only if one of activity,
\* student_id, instructor_id, resource_id, sortie_type, dispatch_decision
\* differs, with a changes map of exactly the differing fields and their old
\* and new values; a change of reasons or citations alone is no modification.
C20_ClassifiedBySlotId ==
    pc = "diffed" =>
        LET old == diff_args.old_roster
            new == diff_args.new_roster
            d   == diff_ret
        IN
        /\ { d.added[i] : i \in 1..Len(d.added) }
             = { SlotOf(new, sid) : sid \in SlotIds(new) \ SlotIds(old) }
        /\ Len(d.added) = Cardinality(SlotIds(new) \ SlotIds(old))
        /\ { d.removed[i] : i \in 1..Len(d.removed) }
             = { SlotOf(old, sid) : sid \in SlotIds(old) \ SlotIds(new) }
        /\ Len(d.removed) = Cardinality(SlotIds(old) \ SlotIds(new))
        /\ d.modified
             = { [ slot_id |-> sid,
                   changes |-> [ k \in Differing(old, new, sid) |->
                                   [ old |-> SlotOf(old, sid)[k],
                                     new |-> SlotOf(new, sid)[k] ] ] ] :
                 sid \in { x \in SlotIds(old) \cap SlotIds(new) :
                             Differing(old, new, x) /= {} } }

\* a diff of two rosters with the same three slot ids: one slot was converted
\* to a simulator (modified, four fields), one differs in reasons and
\* citations only (not modified), one is equal
C20_Witness ==
    /\ pc = "diffed"
    /\ SlotIds(diff_args.old_roster) = SlotIds(diff_args.new_roster)
    /\ Cardinality(SlotIds(diff_args.old_roster)) = 3
    /\ \E sid \in SlotIds(diff_args.old_roster) :
         /\ SlotOf(diff_args.old_roster, sid).reasons
               /= SlotOf(diff_args.new_roster, sid).reasons
         /\ Differing(diff_args.old_roster, diff_args.new_roster, sid) = {}
    /\ \E m \in diff_ret.modified :
         DOMAIN m.changes = { "activity", "sortie_type", "resource_id",
                              "dispatch_decision" }
    /\ diff_ret.total_changes = 1

(***************************************************************************)
(* Properties of the churn rate                                            *)
(***************************************************************************)

C26_UnassignedExactly ==
    pc = "generated" =>
        LET listed(i) == { k \in 1..Len(base.unassigned) :
                             base.unassigned[k].id = cat.students[i].id } IN
        /\ \A i \in 1..Len(cat.students) :
              IF StudentSlots(BaseSlots, cat.students[i].id) = 0
              THEN Cardinality(listed(i)) = 1
              ELSE listed(i) = {}
        /\ \A k \in 1..Len(base.unassigned) :
              /\ base.unassigned[k].entity = "student"
              /\ base.unassigned[k].reason = "No available slot matched constraints"
              /\ \E i \in 1..Len(cat.students) : k \in listed(i)

\* one student holds a slot but fewer than required and is not listed, the
\* other holds none and is listed
C26_Witness ==
    /\ pc = "generated"
    /\ \E i \in 1..Len(cat.students) :
         /\ StudentSlots(BaseSlots, cat.students[i].id) >= 1
         /\ StudentSlots(BaseSlots, cat.students[i].id)
                < cat.students[i].required_sorties_per_week
    /\ Len(base.unassigned) = 1

\* the time slot of the catalog a roster slot was made for (its index)
TimeSlotOf(slot) ==
    CHOOSE k \in 1..Len(cat.time_slots) : slot.slot_id = SlotId(slot.date, cat.time_slots[k])

\* the roster slots made for the k-th time slot of a day
SlotsAt(day, k) ==
    { i \in 1..Len(BaseSlots) : BaseSlots[i].slot_id = SlotId(day, cat.time_slots[k]) }

\* the roster slots made before the k-th time slot of a day was scanned
SlotsBefore(day, k) ==
    { i \in 1..Len(BaseSlots) :
        \/ BaseSlots[i].date < day
        \/ BaseSlots[i].date = day /\ \E j \in 1..(k - 1) : i \in SlotsAt(day, j) }

\* C29: generate_roster emits at most one slot per (date, time slot): the
\* slot_ids of a roster are pairwise different, every slot is the slot of one
\* time slot on the date of its day, and a day holds at most len(time_slots)
\* slots.
C29_OneSlotPerWindow ==
    pc = "generated" =>
        /\ \A n \in 1..Len(base.roster) :
              /\ Len(base.roster[n].slots) <= Len(cat.time_slots)
              /\ \A i \in 1..Len(base.roster[n].slots) :
                    LET slot == base.roster[n].slots[i] IN
                    /\ slot.date = base.roster[n].date
                    /\ \E k \in 1..Len(cat.time_slots) :
                          /\ slot.slot_id = SlotId(slot.date, cat.time_slots[k])
                          /\ slot.start = cat.time_slots[k].start_time
                          /\ slot.end = cat.time_slots[k].end_time
        /\ \A day \in 1..Len(week_dates), k \in 1..Len(cat.time_slots) :
              Cardinality(SlotsAt(day, k)) <= 1
        /\ \A i, j \in 1..Len(BaseSlots) :
              BaseSlots[i].slot_id = BaseSlots[j].slot_id => i = j

\* Monday holds a slot for each time slot of the catalog, another day holds
\* fewer
C29_Witness ==
    /\ pc = "generated"
    /\ Len(base.roster[1].slots) = Len(cat.time_slots)
    /\ Len(base.roster[2].slots) = 1
    /\ Len(cat.time_slots) >= 2

\* the window of a time slot and the window of a roster slot share an instant
OverlapsSlot(ts, slot) ==
    /\ parse_time(ts.start_time) < parse_time(slot.end)
    /\ parse_time(slot.start) < parse_time(ts.end_time)
    /\ parse_time(ts.start_time) < parse_time(ts.end_time)
    /\ parse_time(slot.start) < parse_time(slot.end)

\* the entity holds none of the slots P on that day in a window that overlaps ts
FreeIn(entity_id, day, ts, P) ==
    \A i \in P :
        (BaseSlots[i].date = day /\ entity_id \in EntityIds(BaseSlots[i]))
            => ~OverlapsSlot(ts, BaseSlots[i])

\* duty minutes (duration + one hour per slot) the slots P give an instructor on a day
RECURSIVE DutyIn(_, _, _)
DutyIn(instructor_id, day, P) ==
    IF P = {} THEN 0
    ELSE LET i == CHOOSE x \in P : TRUE IN
         (IF BaseSlots[i].date = day /\ BaseSlots[i].instructor_id = instructor_id
          THEN duration_minutes(BaseSlots[i].start, BaseSlots[i].end) + 60 ELSE 0)
         + DutyIn(instructor_id, day, P \ {i})

\* an instructor who could take the window, given the slots P: available,
\* free, and within the duty hours with this slot added
InstructorFits(inst, day, ts, P) ==
    /\ is_available(inst.availability, get_day_name(day), ts.start_time, ts.end_time)
    /\ FreeIn(inst.id, day, ts, P)
    /\ DutyIn(inst.id, day, P) + duration_minutes(ts.start_time, ts.end_time) + 60
          <= 60 * inst.max_duty_hours_per_day

\* a rated instructor and an aircraft exist for a flight of the student
FlightFeasible(student, day, ts, P) ==
    /\ \E n \in 1..Len(cat.instructors) :
          /\ pick_sortie_type(student) \in cat.instructors[n].ratings
          /\ InstructorFits(cat.instructors[n], day, ts, P)
    /\ \E n \in 1..Len(cat.aircraft) :
          LET ac == cat.aircraft[n] IN
          /\ ~is_maintenance(ac, get_day_name(day))
          /\ is_available(ac.availability_windows, get_day_name(day),
                          ts.start_time, ts.end_time)
          /\ FreeIn(ac.id, day, ts, P)
          /\ Cardinality({ i \in P : /\ BaseSlots[i].date = day
                                      /\ BaseSlots[i].activity = "FLIGHT"
                                      /\ BaseSlots[i].resource_id = ac.id }) < 2

\* a simulator instructor and a simulator exist for the window
SimFeasible(day, ts, P) ==
    /\ \E n \in 1..Len(cat.instructors) :
          /\ cat.instructors[n].sim_instructor
          /\ InstructorFits(cat.instructors[n], day, ts, P)
    /\ \E n \in 1..Len(cat.simulators) :
          LET sim == cat.simulators[n] IN
          /\ is_available(sim.availability, get_day_name(day), ts.start_time, ts.end_time)
          /\ FreeIn(sim.id, day, ts, P)
          /\ Cardinality({ i \in P : /\ BaseSlots[i].date = day
                                      /\ BaseSlots[i].activity = "SIM"
                                      /\ BaseSlots[i].resource_id = sim.id })
                < sim.max_sessions_per_day

\* the n-th input student can be given the window, given the slots P
Eligible(n, day, ts, P) ==
    LET student == cat.students[n] IN
    /\ Cardinality({ i \in P : BaseSlots[i].student_id = student.id })
          < student.required_sorties_per_week
    /\ is_available(student.availability, get_day_name(day), ts.start_time, ts.end_time)
    /\ FreeIn(student.id, day, ts, P)
    /\ FlightFeasible(student, day, ts, P) \/ SimFeasible(day, ts, P)

\* the m-th input student is scanned before the n-th: lower priority number,
\* ties in input order
ScannedBefore(m, n) ==
    \/ cat.students[m].priority < cat.students[n].priority
    \/ cat.students[m].priority = cat.students[n].priority /\ m < n

\* C28: for each (date, time slot) generate_roster assigns the slot to the
\* first student, in ascending priority number with ties in input order, who
\* has not met the weekly cap, is available for the window, is not already
\* booked in it and for whom a FLIGHT or a SIM assignment is feasible at that
\* moment; no earlier student who satisfied all of these is skipped, and the
\* window stays empty when no student does.
C28_FirstFit ==
    pc = "generated" =>
        \A day \in 1..Len(week_dates), k \in 1..Len(cat.time_slots) :
            LET ts == cat.time_slots[k]
                P  == SlotsBefore(day, k)
                eligible == { n \in 1..Len(cat.students) : Eligible(n, day, ts, P) }
            IN
            IF eligible = {} THEN SlotsAt(day, k) = {}
            ELSE \E n \in eligible :
                    /\ \A m \in eligible : m /= n => ScannedBefore(n, m)
                    /\ \E i \in SlotsAt(day, k) :
                          BaseSlots[i].student_id = cat.students[n].id

\* the second input student has the lower priority number and takes the
\* first window of Monday, for which the first input student was eligible too
C28_Witness ==
    /\ pc = "generated"
    /\ cat.students[2].priority < cat.students[1].priority
    /\ Eligible(1, 1, cat.time_slots[1], {})
    /\ Eligible(2, 1, cat.time_slots[1], {})
    /\ BaseSlots[1].student_id = cat.students[2].id
    /\ \E i \in 2..Len(BaseSlots) : BaseSlots[i].student_id = cat.students[1].id

\* the student a roster slot is assigned to
StudentOf(slot) ==
    cat.students[CHOOSE n \in 1..Len(cat.students) : cat.students[n].id = slot.student_id]

\* C30: generate_roster prefers FLIGHT over SIM: a slot is a SIM slot (activity
\* SIM, sortie_type SIM_PROCEDURES, GO, reasons NO_AIRCRAFT_AVAILABLE and
\* SIM_FALLBACK) only when at that moment no rated, available, free, duty-ok
\* instructor together with a non-maintenance, available, free, under-cap
\* aircraft existed for its student; otherwise it is a FLIGHT slot with GO and
\* reasons INSTRUCTOR_CURRENCY_OK and AIRCRAFT_AVAILABLE.
C30_FlightPreferred ==
    pc = "generated" =>
        \A i \in 1..Len(BaseSlots) :
            LET slot == BaseSlots[i]
                ts   == cat.time_slots[TimeSlotOf(slot)]
                P    == SlotsBefore(slot.date, TimeSlotOf(slot))
            IN
            /\ slot.activity \in { "FLIGHT", "SIM" }
            /\ slot.activity = "SIM" =>
                  /\ ~FlightFeasible(StudentOf(slot), slot.date, ts, P)
                  /\ slot.sortie_type = "SIM_PROCEDURES"
                  /\ slot.dispatch_decision = "GO"
                  /\ slot.reasons = << "NO_AIRCRAFT_AVAILABLE", "SIM_FALLBACK" >>
            /\ FlightFeasible(StudentOf(slot), slot.date, ts, P) =>
                  slot.activity = "FLIGHT"
            /\ slot.activity = "FLIGHT" =>
                  /\ slot.sortie_type = pick_sortie_type(StudentOf(slot))
                  /\ slot.dispatch_decision = "GO"
                  /\ slot.reasons = << "INSTRUCTOR_CURRENCY_OK", "AIRCRAFT_AVAILABLE" >>

\* a roster with a FLIGHT slot made while a simulator and a simulator
\* instructor were free too, and a SIM slot made when no flight was possible
C30_Witness ==
    /\ pc = "generated"
    /\ \E i \in 1..Len(BaseSlots) :
         /\ BaseSlots[i].activity = "FLIGHT"
         /\ SimFeasible(BaseSlots[i].date, cat.time_slots[TimeSlotOf(BaseSlots[i])],
                        SlotsBefore(BaseSlots[i].date, TimeSlotOf(BaseSlots[i])))
    /\ \E i \in 1..Len(BaseSlots) :
         /\ BaseSlots[i].activity = "SIM"
         /\ ~FlightFeasible(StudentOf(BaseSlots[i]), BaseSlots[i].date,
                            cat.time_slots[TimeSlotOf(BaseSlots[i])],
                            SlotsBefore(BaseSlots[i].date, TimeSlotOf(BaseSlots[i])))

\* an aircraft that could take the window, given the slots P: not under
\* maintenance that day, available, free, and under the cap of 2 sorties
AircraftFits(ac, day, ts, P) ==
    /\ ~is_maintenance(ac, get_day_name(day))
    /\ is_available(ac.availability_windows, get_day_name(day), ts.start_time, ts.end_time)
    /\ FreeIn(ac.id, day, ts, P)
    /\ Cardinality({ i \in P : /\ BaseSlots[i].date = day
                                /\ BaseSlots[i].activity = "FLIGHT"
                                /\ BaseSlots[i].resource_id = ac.id }) < 2

\* C31: in every generated roster the instructor of a FLIGHT slot is the first
\* instructor in input order whose ratings include the slot's sortie_type and
\* who was available, free and duty-hour-ok at assignment time, and its
\* aircraft is the first in input order that was not under maintenance that
\* day, available, free and under the sortie cap; the instructor of a SIM slot
\* has sim_instructor set and its resource is a simulator available in that
\* window.
C31_FirstInstructorAndResource ==
    pc = "generated" =>
        \A i \in 1..Len(BaseSlots) :
            LET slot  == BaseSlots[i]
                ts    == cat.time_slots[TimeSlotOf(slot)]
                P     == SlotsBefore(slot.date, TimeSlotOf(slot))
                insts == { n \in 1..Len(cat.instructors) :
                             /\ slot.sortie_type \in cat.instructors[n].ratings
                             /\ InstructorFits(cat.instructors[n], slot.date, ts, P) }
                acs   == { n \in 1..Len(cat.aircraft) :
                             AircraftFits(cat.aircraft[n], slot.date, ts, P) }
            IN
            /\ slot.activity = "FLIGHT" =>
                  /\ \E n \in insts :
                        /\ \A m \in insts : n <= m
                        /\ slot.instructor_id = cat.instructors[n].id
                  /\ \E n \in acs :
                        /\ \A m \in acs : n <= m
                        /\ slot.resource_id = cat.aircraft[n].id
            /\ slot.activity = "SIM" =>
                  /\ \E n \in 1..Len(cat.instructors) :
                        /\ cat.instructors[n].id = slot.instructor_id
                        /\ cat.instructors[n].sim_instructor
                  /\ \E n \in 1..Len(cat.simulators) :
                        /\ cat.simulators[n].id = slot.resource_id
                        /\ is_available(cat.simulators[n].availability,
                                        get_day_name(slot.date), ts.start_time, ts.end_time)

\* a FLIGHT slot taught by the second instructor while the first, who holds
\* the rating too, was out of duty hours
C31_Witness ==
    /\ pc = "generated"
    /\ \E i \in 1..Len(BaseSlots) :
         /\ BaseSlots[i].activity = "FLIGHT"
         /\ BaseSlots[i].instructor_id = cat.instructors[2].id
         /\ BaseSlots[i].sortie_type \in cat.instructors[1].ratings

\* the thresholds C32 names for a slot and a stage: those of a solo sortie, or
\* those of the first table entry whose key begins the stage, or those of
\* PPL-1
NamedMinima(sortie_type, stage) ==
    LET hits == { i \in 1..Len(STAGE_MINIMA) :
                    /\ Len(STAGE_MINIMA[i].key) <= Len(stage)
                    /\ \A j \in 1..Len(STAGE_MINIMA[i].key) :
                          stage[j] = STAGE_MINIMA[i].key[j] }
    IN IF sortie_type = "SOLO" THEN SOLO_MINIMA
       ELSE IF hits = {} THEN STAGE_MINIMA[1].minima
       ELSE STAGE_MINIMA[CHOOSE i \in hits : \A j \in hits : i <= j].minima

ReasonsOf(slot) == { slot.reasons[i] : i \in 1..Len(slot.reasons) }

\* C32: check_dispatch judges a FLIGHT slot against SOLO_MINIMA when its
\* sortie_type is SOLO, whatever the stage, and otherwise against the first
\* entry of the stage table, in the order PPL-1..PPL-4, whose key is a prefix
\* of the student's stage; a stage that matches no key is judged against the
\* PPL-1 entry, which is at least as strict in all four thresholds as every
\* other stage entry.
C32_MinimaSelection ==
    /\ \A i \in 1..Len(STAGE_MINIMA) :
          /\ STAGE_MINIMA[1].minima.ceiling_ft >= STAGE_MINIMA[i].minima.ceiling_ft
          /\ STAGE_MINIMA[1].minima.visibility_sm >= STAGE_MINIMA[i].minima.visibility_sm
          /\ STAGE_MINIMA[1].minima.wind_kt <= STAGE_MINIMA[i].minima.wind_kt
          /\ STAGE_MINIMA[1].minima.crosswind_kt <= STAGE_MINIMA[i].minima.crosswind_kt
    /\ (pc = "returned" /\ cd_args.slot.activity = "FLIGHT"
          /\ cd_args.weather.confidence /= "unknown")
       => LET m == NamedMinima(cd_args.slot.sortie_type, cd_args.student.stage)
              w == cd_args.weather
          IN
          /\ "WX_BELOW_CEILING_MINIMA" \in ReasonsOf(cd_ret)
                <=> (w.ceiling_ft /= None /\ w.ceiling_ft[1] < m.ceiling_ft)
          /\ "WX_BELOW_VIS_MINIMA" \in ReasonsOf(cd_ret)
                <=> (w.visibility_sm /= None /\ w.visibility_sm[1] < m.visibility_sm)
          /\ "WX_WIND_EXCEEDED" \in ReasonsOf(cd_ret)
                <=> (w.wind_kt /= None /\ w.wind_kt[1] > m.wind_kt)
          /\ "WX_CROSSWIND_EXCEEDED" \in ReasonsOf(cd_ret)
                <=> (w.crosswind_kt /= None /\ w.crosswind_kt[1] > m.crosswind_kt)
          /\ cd_ret.dispatch_decision = "GO"
                <=> /\ w.ceiling_ft /= None => w.ceiling_ft[1] >= m.ceiling_ft
                    /\ w.visibility_sm /= None => w.visibility_sm[1] >= m.visibility_sm
                    /\ w.wind_kt /= None => w.wind_kt[1] <= m.wind_kt
                    /\ w.crosswind_kt /= None => w.crosswind_kt[1] <= m.crosswind_kt

\* a dual sortie of a student whose stage matches no key, under a ceiling
\* that passes the PPL-3 and PPL-4 entries and fails the PPL-1 entry: NO_GO
C32_Witness ==
    /\ pc = "returned"
    /\ cd_args.slot.activity = "FLIGHT"
    /\ cd_args.slot.sortie_type = "CIRCUITS"
    /\ cd_args.student.stage = CPL1
    /\ cd_args.weather.confidence = "live"
    /\ cd_args.weather.ceiling_ft = Some(1500)
    /\ cd_args.weather.visibility_sm = None
    /\ cd_args.weather.wind_kt = None
    /\ cd_args.weather.crosswind_kt = None
    /\ cd_ret.dispatch_decision = "NO_GO"
    /\ "WX_BELOW_CEILING_MINIMA" \in ReasonsOf(cd_ret)

\* the ways of writing n < 100 in one or two digits
NumberTexts(n) ==
    { << Alphabet[(n \div 10) + 2], Alphabet[(n % 10) + 2] >> }
    \cup (IF n < 10 THEN { << Alphabet[n + 2] >> } ELSE {})

\* the minutes since midnight that the text t writes as hours:minutes
ClockValues(t) ==
    { v \in 0..1439 :
        \E h \in NumberTexts(v \div 60), m \in NumberTexts(v % 60) :
            t = h \o << ":" >> \o m }

\* window w is two clock times joined by a dash, is not the sentinel, and
\* contains the candidate from start to end
ContainsCandidate(w, start, end) ==
    /\ w /= MAINTENANCE
    /\ \E k \in 1..Len(w) :
         /\ w[k] = "-"
         /\ \E ws \in ClockValues(SubSeq(w, 1, k - 1)),
               we \in ClockValues(SubSeq(w, k + 1, Len(w))),
               cs \in ClockValues(start), ce \in ClockValues(end) :
                ws <= cs /\ ce <= we

\* C33: is_available is fail-closed: it returns true only if some window
\* listed for that weekday is a well-formed window of two clock times, is not
\* the MAINTENANCE sentinel, and has window start <= candidate start and
\* candidate end <= window end; a missing weekday entry, an empty list, a
\* MAINTENANCE entry or a malformed window string yields false, and the call
\* always returns a boolean, never an exception.
C33_FailClosed ==
    pc = "availed" =>
        LET av  == avail_args.entity_availability
            day == avail_args.day_name
        IN
        /\ avail_ret \in { Some(TRUE), Some(FALSE) }
        /\ avail_ret = Some(TRUE) =>
              /\ day \in DOMAIN av
              /\ \E i \in 1..Len(av[day]) :
                    ContainsCandidate(av[day][i], avail_args.slot_start,
                                      avail_args.slot_end)
        /\ (day \notin DOMAIN av
            \/ \A i \in 1..Len(av[day]) :
                  ~ContainsCandidate(av[day][i], avail_args.slot_start,
                                     avail_args.slot_end))
           => avail_ret = Some(FALSE)

\* a list of a malformed text and a containing window gives true, and a list
\* of the sentinel alone, asked for a candidate, gives false
C33_Witness ==
    /\ pc = "availed"
    /\ avail_args.day_name = "Mon"
    /\ avail_args.entity_availability = [ d \in {"Mon"} |-> << T0800, Window(T0800, T1400) >> ]
    /\ avail_args.slot_start = T0800
    /\ avail_args.slot_end = T1400
    /\ avail_ret = Some(TRUE)

\* the strings of the form rules:<doc_id>#chunk<n>, for the rule documents
\* and chunk numbers the code cites
ChunkCitations ==
    { "rules:" \o d \o "#chunk" \o n :
        d \in { "doc_dispatch", "doc_weather" },
        n \in { "1", "2", "3", "4", "5", "6", "7", "8", "9" } }

\* C34: every slot of a roster produced by generate_roster, by the dispatch
\* scan with check_dispatch or by reallocate_roster carries a non-empty list of
\* citations, each one a fixed string of the form rules:<doc_id>#chunk<n>.
C34_Citations ==
    \A i \in 1..Len(RosterSlots) :
        /\ RosterSlots[i].citations /= << >>
        /\ \A k \in 1..Len(RosterSlots[i].citations) :
              RosterSlots[i].citations[k] \in ChunkCitations

\* a roster reallocated after an INSTRUCTOR_UNAVAILABLE event that flagged a
\* slot
C34_Witness ==
    /\ pc = "reallocated"
    /\ event.event_type = "INSTRUCTOR_UNAVAILABLE"
    /\ \E i \in 1..Len(RosterSlots) :
         /\ RosterSlots[i].dispatch_decision = "NEEDS_REVIEW"
         /\ PrevSlots[i].dispatch_decision /= "NEEDS_REVIEW"

\* C35: reallocate_roster preserves unaffected slots: every slot of the
\* current roster that is not in the returned affected_slots appears in
\* new_roster, on the same day and at the same position, with all its fields
\* unchanged, for every event type and every window.
C35_UnaffectedPreserved ==
    pc = "reallocated" =>
        \A n \in 1..Len(prev.roster) : \A k \in 1..Len(prev.roster[n].slots) :
            ~IsReturnedAffected(prev.roster[n].slots[k])
            => /\ n <= Len(result.new_roster.roster)
               /\ k <= Len(result.new_roster.roster[n].slots)
               /\ result.new_roster.roster[n].slots[k] = prev.roster[n].slots[k]

\* an INSTRUCTOR_UNAVAILABLE event that flags one slot of a day and leaves the
\* other slot of that day as it was
C35_Witness ==
    /\ pc = "reallocated"
    /\ event.event_type = "INSTRUCTOR_UNAVAILABLE"
    /\ \E n \in 1..Len(prev.roster) : \E j, k \in 1..Len(prev.roster[n].slots) :
         /\ IsReturnedAffected(prev.roster[n].slots[j])
         /\ result.new_roster.roster[n].slots[j] /= prev.roster[n].slots[j]
         /\ ~IsReturnedAffected(prev.roster[n].slots[k])
         /\ result.new_roster.roster[n].slots[k] = prev.roster[n].slots[k]

C37_InputUnchanged ==
    pc = "realloc_returned" =>
        \A ref \in DOMAIN RosterObjects(roster, "in") :
            heap.store[ref] = RosterObjects(roster, "in")[ref]

\* a WEATHER_UPDATE call that converted a slot: the roster returned is built of
\* other objects and differs from the input, which reads as before
C37_Witness ==
    /\ pc = "realloc_returned"
    /\ event.event_type = "WEATHER_UPDATE"
    /\ RosterValue(heap.store, heap.ref) = result.new_roster
    /\ RosterValue(heap.store, Ref("in", "roster", 0, 0)) = roster
    /\ \E n \in 1..Len(roster.roster) : \E k \in 1..Len(roster.roster[n].slots) :
         /\ roster.roster[n].slots[k].activity = "FLIGHT"
         /\ result.new_roster.roster[n].slots[k].activity = "SIM"

\* the event names no weather scenario, or one get_weather_mock does not know
DefaultedWeather(ev) ==
    \/ "weather_scenario" \notin DOMAIN ev.metadata
    \/ ev.metadata["weather_scenario"] \notin Scenarios

\* C38: a WEATHER_UPDATE reallocation never produces GO from defaulted
\* weather: when the event carries neither weather_data nor a
\* weather_scenario, or names an unknown scenario, no FLIGHT slot of the
\* current roster comes back dispatched GO.
C38_NoGoFromDefaultedWeather ==
    (pc = "reallocated" /\ event.event_type = "WEATHER_UPDATE" /\ DefaultedWeather(event))
    => \A i \in 1..Len(PrevSlots) :
          PrevSlots[i].activity = "FLIGHT" => RosterSlots[i].dispatch_decision /= "GO"

\* a WEATHER_UPDATE event naming the unknown scenario "storm", applied to a
\* roster with a FLIGHT slot
C38_Witness ==
    /\ pc = "reallocated"
    /\ event.event_type = "WEATHER_UPDATE"
    /\ "weather_scenario" \in DOMAIN event.metadata
    /\ event.metadata["weather_scenario"] = "storm"
    /\ \E i \in 1..Len(PrevSlots) : PrevSlots[i].activity = "FLIGHT"

(***************************************************************************)
(* Properties of get_weather                                               *)
(***************************************************************************)

\* the report the cache held for the airfield of a call, before the call
EntryOf(call) == reports[call.entry[1]]

\* the cache held a report younger than 30 minutes for the airfield of the call
HadYoung(call) ==
    /\ call.entry /= None
    /\ call.at - EntryOf(call).fetched_at < CACHE_TTL_MINUTES

\* the call returned the report the cache held, with confidence "cached"
ServedCached(call) ==
    /\ call.entry /= None
    /\ call.ref = call.entry[1]
    /\ call.report.confidence = "cached"
    /\ call.fetch = None

\* the live fetch of the call was made and failed: _fetch_metar or
\* _parse_metar raised
FetchFailed(call) ==
    /\ call.fetch /= None
    /\ call.fetch[1].raises \/ ParseRaises(call.fetch[1].raw)

\* C23: get_weather returns the report cached for the airfield, with
\* confidence "cached", exactly when that report is younger than 30 minutes;
\* otherwise (no entry, or an entry 30 minutes old or older) it attempts a
\* live fetch and, on success, returns the new report with confidence "live"
\* and stores it in the cache under that airfield.
C23_CachedWhenYoung ==
    \A n \in 1..Len(got) :
        LET call == got[n] IN
        /\ ServedCached(call) <=> HadYoung(call)
        /\ ~HadYoung(call) => call.fetch /= None
        /\ (call.fetch /= None /\ ~FetchFailed(call)) =>
               /\ call.report.confidence = "live"
               /\ call.report.fetched_at = call.at
               /\ call.ref \notin { got[m].ref : m \in 1..(n - 1) }
               /\ n = Len(got) => _cache[Upper(call.icao)] = call.ref

\* a call made exactly 30 minutes after the report of its airfield was
\* fetched returns that report as "cached" and fetches nothing
C23_Witness ==
    \E n \in 1..Len(got) :
        /\ got[n].entry /= None
        /\ got[n].at - EntryOf(got[n]).fetched_at = CACHE_TTL_MINUTES
        /\ ServedCached(got[n])

\* the flight slots, students, simulators and counters a report is dispatched against
FlightDispatches ==
    { c \in { [ slot |-> sl, student |-> [ id |-> "S1", stage |-> st ],
                simulators |-> sims, sim_slots_used |-> used ] :
                sl \in DispatchSlots, st \in DispatchStages,
                sims \in DispatchSimulators, used \in DispatchCounters } :
        c.slot.activity = "FLIGHT" }

\* C24: when the live fetch or the parse fails, get_weather returns (it does
\* not raise) a fallback report with ceiling, visibility, wind and crosswind
\* absent and confidence "unknown", and every FLIGHT slot dispatched against
\* that report becomes NEEDS_REVIEW.
C24_FailureGivesUnknown ==
    \A n \in 1..Len(got) :
        FetchFailed(got[n]) =>
            LET report == got[n].report IN
            /\ report.ceiling_ft = None /\ report.visibility_sm = None
            /\ report.wind_kt = None /\ report.crosswind_kt = None
            /\ report.confidence = "unknown"
            /\ reports[got[n].ref] = report
            /\ \A c \in FlightDispatches :
                  check_dispatch(c.slot, c.student, reports[got[n].ref], c.simulators,
                                 c.sim_slots_used).dispatch_decision = "NEEDS_REVIEW"

\* the parse raised in a call made while the cache held a stale report for
\* the airfield: the call returned the "unknown" report
C24_Witness ==
    \E n \in 1..Len(got) :
        /\ got[n].fetch /= None /\ ~got[n].fetch[1].raises
        /\ ParseRaises(got[n].fetch[1].raw)
        /\ got[n].entry /= None
        /\ got[n].report.confidence = "unknown"

\* C25: a WeatherReport is immutable once produced: no field of a report
\* returned by get_weather is changed by a later call of get_weather, for the
\* same or for another airfield.
C25_ReturnedReportsUnchanged ==
    \A n \in 1..Len(got) : reports[got[n].ref] = got[n].report

\* a report returned as "live" by one call has confidence "cached" after a
\* later call for the same airfield
C25_Witness ==
    \E n \in 1..Len(got) :
        /\ got[n].report.confidence = "live"
        /\ reports[got[n].ref].confidence = "cached"
        /\ \E m \in (n + 1)..Len(got) : got[m].ref = got[n].ref

(***************************************************************************)
(* Properties of the stored roster versions                                *)
(***************************************************************************)

\* C27: for one week_start the versions stored by POST /roster/reallocate
\* carry strictly increasing, pairwise distinct version numbers, and each new
\* version is computed from the roster of the version stored just before it,
\* for every interleaving of concurrent requests.
C27_VersionsSerial ==
    /\ \A i, j \in 1..Len(versions) :
          i < j => versions[i].version < versions[j].version
    /\ \A i \in 1..Len(versions) :
          versions[i].roster_json
              = Append(IF i = 1 THEN << >> ELSE versions[i - 1].roster_json,
                       versions[i].correlation_id)

\* two requests read the same latest version before either committed: two
\* rows carry the same version number and the second leaves out the event of
\* the first
C27_Witness ==
    \E i, j \in 1..Len(versions) :
        /\ i < j
        /\ versions[i].version = versions[j].version
        /\ versions[i].version > 1
        /\ \A k \in 1..Len(versions[j].roster_json) :
              versions[j].roster_json[k] /= versions[i].correlation_id

(***************************************************************************)
(* Properties of run_ingestion                                             *)
(***************************************************************************)

\* a run of the same files succeeded before the call
IngestedBefore(call) ==
    \E i \in 1..Len(call.before.ingestion_runs) :
        /\ call.before.ingestion_runs[i].source_hash = call.files
        /\ call.before.ingestion_runs[i].status = "success"

====
